---------------------------- MODULE Spec2Model ----------------------------
(***************************************************************************)
(* A model of src/live-data.js: the multi-relay fetch                      *)
(* (fetchJsonWithCorsFallback), the bounded mapper (mapWithConcurrency)    *)
(* and the local cache (loadLiveCache, setCacheEntry, getCacheEntry).      *)
(*                                                                         *)
(* The browser's event loop runs one callback at a time, so every action   *)
(* below is one callback run to completion: the code from one await to the *)
(* next, together with the promise reactions it triggers.                  *)
(***************************************************************************)
EXTENDS Integers, Sequences, FiniteSets, TLC

VARIABLES
    proxies,            \* the configured relay list (CORS_PROXIES, or a prefix of it)
    hasPromiseAny,      \* typeof Promise.any === 'function'
    maxCalls,           \* how many fetchJson calls the callers keep in flight
    currentProxyIndex,  \* let currentProxyIndex (0-based, as in the code)
    call,               \* per fetchJson call: status, startIndex, proxiesInOrder, value
    att,                \* per call and relay index: the stage of that relay attempt
    firstOk,            \* history: per call, the relay whose attempt succeeded first in time
    mapState,           \* mapWithConcurrency: "idle", "running" or "resolved" (the returned promise)
    items,              \* items.length
    concurrency,        \* the concurrency argument
    results,            \* const results = new Array(items.length)
    nextIndex,          \* let nextIndex (0-based)
    worker,             \* per worker: the index whose mapper it awaits, or NoWorker / WorkerDone
    outcome,            \* history: per item, what its mapper call settled with
    finished,           \* history: the item indices in the order their mapper calls settled
    storage,            \* localStorage.getItem(LIVE_CACHE_KEY)
    now,                \* Date.now()
    loaded,             \* the last loadLiveCache() call: clock, storage read, mapping returned
    got,                \* the last cache call, if a getCacheEntry(key): key, clock, value returned
    put,                \* the last cache call, if a setCacheEntry(key, data): arguments, clock
    page,               \* currentPage = pathname.split('/').pop(), as a sequence of characters
    cards,              \* the cards of the document
    body,               \* document.body.classList
    pc,                 \* the page controller's step
    slot,               \* per card and slot: textContent and dataset.liveUpdated
    status,             \* per card: the .price-status text and its is-live class
    cycles,             \* the update...Data() calls so far: pipeline, caller, state, return value
    timers,             \* how many setInterval registrations were made
    prepared,           \* history: how often placeholders were prepared
    painted,            \* history: how often the cache was painted
    seen,               \* history: per card, cache entry found at paint time, live data received
    quote,              \* history: the last chart payload a mapper handled, and its outcome
    request,            \* one relay attempt: relay index, targetUrl, proxyUrl
    response,           \* that attempt's response: body, bodyUsed, and what reading it gave
    lingering,          \* per relay: the attempts still pending of calls whose mapper went on
    taken,              \* how many symbols the workers of the cycle have taken
    element             \* one widget element: textContent, className, dataset; history:
                        \* the calls so far, text and class before the first call

fetchVars == <<proxies, hasPromiseAny, maxCalls, currentProxyIndex, call, att, firstOk>>

mapVars == <<mapState, items, concurrency, results, nextIndex, worker, outcome, finished>>

cacheVars == <<storage, now, loaded, got, put>>

pageVars == <<page, cards, body, pc, slot, status, cycles, timers, prepared, painted, seen, quote>>

relayVars == <<request, response>>

domVars == <<element>>

cycleVars == <<lingering, taken>>

vars == <<fetchVars, mapVars, cacheVars, pageVars, relayVars, domVars, cycleVars>>

-----------------------------------------------------------------------------
(* Program constants *)

CORS_PROXIES ==
    << [name |-> "allorigins-raw", type |-> "raw"],
       [name |-> "jina",           type |-> "jina"],
       [name |-> "allorigins-get", type |-> "allorigins-get"],
       [name |-> "corsproxy",      type |-> "raw"],
       [name |-> "cors-anywhere",  type |-> "path"] >>

SYMBOL_FETCH_CONCURRENCY == 4

\* 1000 * 60 * 60 * 24 * 7
LIVE_CACHE_MAX_AGE_MS == 604800000

(* Bounds *)

\* The longest items array handed to mapWithConcurrency.
MaxItems == 5

\* Clock values and timestamps lie within MaxTick ms after the epoch or
\* within MaxTick ms after the epoch plus the cache's maximum age.
MaxTick == 2

\* Relays configured in the configuration that runs two calls concurrently.
ConcRelays == 2

\* Call slots; a slot is reused for a later call once its call and all of
\* that call's attempts have settled.
Calls == {1, 2}

None == -1

-----------------------------------------------------------------------------
(* Resilient fetch *)

N == Len(proxies)

RelayIdx == 0 .. (N - 1)

Settled == {"ok", "failed", "aborted"}

Failed == {"failed", "aborted"}

\* Mutant: the offsets run from 1, so the order starts one relay too late.
ProxiesInOrder_OffByOne(startIndex, n) ==
    [i \in 1 .. n |-> (startIndex + i) % n]

\* for (offset = 0; offset < CORS_PROXIES.length; offset++) push (startIndex + offset) % length
ProxiesInOrder(startIndex, n) ==
    [i \in 1 .. n |-> (startIndex + (i - 1)) % n]

\* The requests one call issues: attempts = proxiesInOrder.map(...) runs each
\* async body up to its first await, which is the fetch of fetchWithTimeout.
RequestsIssued(order, n) ==
    [k \in 0 .. (n - 1) |-> Cardinality({i \in 1 .. Len(order) : order[i] = k})]

IdleCall ==
    [status |-> "idle", startIndex |-> None, order |-> << >>,
     requests |-> << >>, value |-> None]

AllSettled(c) == \A k \in RelayIdx : att[c][k] \in Settled

\* Mutant: Promise.race in place of Promise.any: the first attempt to settle
\* decides, so one relay failure rejects the call.
PromiseAny_Race(cur, stages, k) ==
    IF cur.status # "pending" THEN cur
    ELSE IF stages[k] = "ok" THEN [cur EXCEPT !.status = "resolved", !.value = k]
    ELSE [cur EXCEPT !.status = "rejected"]

\* Promise.any(attempts): fulfilled by the first attempt to fulfil, rejected
\* once every attempt has rejected, and settled only once.
PromiseAny(cur, stages, k) ==
    IF cur.status # "pending" THEN cur
    ELSE IF stages[k] = "ok" THEN [cur EXCEPT !.status = "resolved", !.value = k]
    ELSE IF \A j \in DOMAIN stages : stages[j] \in Failed
         THEN [cur EXCEPT !.status = "rejected"]
    ELSE cur

\* for (const attempt of attempts) { try { return await attempt } catch { lastError = error } }
\* throw lastError: i is the loop's position in proxiesInOrder.
RECURSIVE SequentialLoop(_, _, _)
SequentialLoop(cur, stages, i) ==
    IF i > Len(cur.order) THEN [cur EXCEPT !.status = "rejected"]
    ELSE IF stages[cur.order[i]] = "ok"
         THEN [cur EXCEPT !.status = "resolved", !.value = cur.order[i]]
    ELSE IF stages[cur.order[i]] \in Failed THEN SequentialLoop(cur, stages, i + 1)
    ELSE cur

SequentialFallback(cur, stages) ==
    IF cur.status # "pending" THEN cur ELSE SequentialLoop(cur, stages, 1)

\* What the caller's promise becomes after attempt k of the call settled.
CallOutcome(cur, stages, k) ==
    IF hasPromiseAny THEN PromiseAny(cur, stages, k) ELSE SequentialFallback(cur, stages)

\* Mutant: the index is stored before the status check and the parse.
RotationAfter_Early(cur, k, stage) == k

\* Mutant: a failed attempt moves the index on to the next relay.
RotationAfter_OnFailure(cur, k, stage) == IF stage = "ok" THEN k ELSE (cur + 1) % N

\* currentProxyIndex = index, reached only after response.ok and a parsed payload.
RotationAfter(cur, k, stage) == IF stage = "ok" THEN k ELSE cur

\* Mutant: one AbortController shared by the attempts of a call.
AbortedBy_Shared(c, k, d, j) == d = c

\* controller.abort() of attempt (c, k): the attempts (d, j) whose request it aborts.
\* Every fetchWithTimeout call has an AbortController of its own.
AbortedBy(c, k, d, j) == d = c /\ j = k

\* Attempt k of call c settles with `stage`; the promise reactions run with it.
Settle(c, k, stage) ==
    LET stages == [att[c] EXCEPT ![k] = stage] IN
    /\ att' = [att EXCEPT ![c] = stages]
    /\ call' = [call EXCEPT ![c] = CallOutcome(call[c], stages, k)]
    /\ currentProxyIndex' = RotationAfter(currentProxyIndex, k, stage)
    /\ firstOk' = IF stage = "ok" /\ firstOk[c] = None
                  THEN [firstOk EXCEPT ![c] = k] ELSE firstOk

\* The call record after lines 85-89: the rotation index read, the order built.
NewCall ==
    [status |-> "pending", startIndex |-> currentProxyIndex,
     order |-> ProxiesInOrder(currentProxyIndex, N),
     requests |-> RequestsIssued(ProxiesInOrder(currentProxyIndex, N), N),
     value |-> None]

\* attempts = proxiesInOrder.map(...): every attempt named in the order is
\* started and waits for its fetch.
NewAttempts ==
    [k \in RelayIdx |->
        IF RequestsIssued(ProxiesInOrder(currentProxyIndex, N), N)[k] > 0
        THEN "fetching" ELSE "none"]

\* Lines 85-104 for call c.
StartAttempts(c) ==
    /\ call' = [call EXCEPT ![c] = NewCall]
    /\ att' = [att EXCEPT ![c] = NewAttempts]
    /\ firstOk' = [firstOk EXCEPT ![c] = None]
    /\ UNCHANGED <<proxies, hasPromiseAny, maxCalls, currentProxyIndex>>

\* fetchJsonWithCorsFallback(targetUrl), up to its first await: reads the
\* rotation index, builds the order and starts every attempt (each arms its
\* timer and issues its request).
StartCall(c) ==
    /\ c <= maxCalls
    /\ \/ call[c].status = "idle"
       \/ call[c].status \in {"resolved", "rejected"} /\ AllSettled(c)
    /\ StartAttempts(c)

\* fetch() rejects (network error): finally clears the timer, the attempt fails.
FetchRejects(c, k) ==
    /\ att[c][k] = "fetching"
    /\ Settle(c, k, "failed")
    /\ UNCHANGED <<proxies, hasPromiseAny, maxCalls>>

\* fetch() resolves with the response headers: finally clears the timer;
\* !response.ok throws, otherwise readJsonResponse starts reading the body.
FetchResponds(c, k, ok) ==
    /\ att[c][k] = "fetching"
    /\ IF ok
       THEN /\ att' = [att EXCEPT ![c][k] = "reading"]
            /\ UNCHANGED <<currentProxyIndex, call, firstOk>>
       ELSE Settle(c, k, "failed")
    /\ UNCHANGED <<proxies, hasPromiseAny, maxCalls>>

\* The timer set by fetchWithTimeout fires: controller.abort() rejects the
\* pending fetch. The timer is armed only while fetch() is pending.
Timeout(c, k) ==
    /\ att[c][k] = "fetching"
    /\ LET stagesOf(d) ==
               [j \in RelayIdx |->
                   IF AbortedBy(c, k, d, j) /\ att[d][j] \in {"fetching", "reading"}
                   THEN "aborted" ELSE att[d][j]]
       IN  /\ att' = [d \in Calls |-> stagesOf(d)]
           /\ call' = [d \in Calls |->
                         IF stagesOf(d) = att[d] THEN call[d]
                         ELSE CallOutcome(call[d], stagesOf(d), k)]
    /\ UNCHANGED <<proxies, hasPromiseAny, maxCalls, currentProxyIndex, firstOk>>

\* readJsonResponse resolves: currentProxyIndex = index; return data.
BodyParsed(c, k) ==
    /\ att[c][k] = "reading"
    /\ Settle(c, k, "ok")
    /\ UNCHANGED <<proxies, hasPromiseAny, maxCalls>>

\* readJsonResponse throws (unexpected envelope, no JSON object in the body).
BodyFails(c, k) ==
    /\ att[c][k] = "reading"
    /\ Settle(c, k, "failed")
    /\ UNCHANGED <<proxies, hasPromiseAny, maxCalls>>

\* The page's configurations: every configured relay with one call at a time,
\* and a shortened relay list with two calls in flight.
FetchInit ==
    /\ \/ proxies = CORS_PROXIES /\ maxCalls = 1
       \/ proxies = SubSeq(CORS_PROXIES, 1, ConcRelays) /\ maxCalls = 2
    /\ hasPromiseAny \in BOOLEAN
    /\ currentProxyIndex = 0
    /\ call = [c \in Calls |-> IdleCall]
    /\ att = [c \in Calls |-> [k \in 0 .. (Len(proxies) - 1) |-> "none"]]
    /\ firstOk = [c \in Calls |-> None]

-----------------------------------------------------------------------------
(* Concurrency-bounded mapper *)

Empty == -1          \* a hole of new Array(n)

Rejected == -2       \* a mapper call that threw or rejected

NoOutcome == -3      \* the mapper was not called, or has not settled

NoWorker == -1       \* a worker that was not spawned

WorkerDone == -2     \* a worker whose loop has ended

Workers == 1 .. SYMBOL_FETCH_CONCURRENCY

\* What the mapper calls of the repository return (updated: 1, not updated: 0).
TaskValues == {0, 1}

Min(a, b) == IF a < b THEN a ELSE b

\* Mutant: one worker per item.
WorkerCount_PerItem(limit, len) == len

\* Mutant: one worker per unit of the limit, whatever the number of items.
WorkerCount_Limit(limit, len) == limit

\* new Array(Math.min(concurrency, items.length))
WorkerCount(limit, len) == Min(limit, len)

\* Mutant: results.push(value): the first free position, in completion order.
ResultSlot_Push(res, current) ==
    IF \E i \in 1 .. Len(res) : res[i] = Empty
    THEN CHOOSE i \in 1 .. Len(res) : res[i] = Empty /\ \A j \in 1 .. (i - 1) : res[j] # Empty
    ELSE current + 1

\* results[current] = ...: the position written (sequences count from 1).
ResultSlot(res, current) == current + 1

\* Mutant: catch { } stores nothing.
Recorded_Hole(o) == IF o = Rejected THEN Empty ELSE o

\* try { results[current] = await mapper(...) } catch { results[current] = 0 }
Recorded(o) == IF o = Rejected THEN 0 ELSE o

InFlight == {w \in Workers : worker[w] >= 0}

\* mapWithConcurrency(items, concurrency, mapper), up to its first await:
\* every worker runs to its first await, claiming the next index in turn.
MapCall(len, limit) ==
    /\ mapState = "idle"
    /\ items' = len
    /\ concurrency' = limit
    /\ results' = [i \in 1 .. len |-> Empty]
    /\ outcome' = [i \in 1 .. len |-> NoOutcome]
    /\ finished' = << >>
    /\ worker' = [w \in Workers |->
                    IF w <= WorkerCount(limit, len) THEN w - 1 ELSE NoWorker]
    /\ nextIndex' = Min(WorkerCount(limit, len), len)
    /\ mapState' = IF WorkerCount(limit, len) = 0 THEN "resolved" ELSE "running"

\* The mapper call awaited by worker w settles with o; the worker stores the
\* result and runs its loop to the next await or to the end. Promise.all
\* resolves when the last worker ends.
TaskSettles(w, o) ==
    /\ mapState = "running"
    /\ worker[w] >= 0
    /\ LET current == worker[w]
           more == nextIndex < items
           workerNow == [worker EXCEPT ![w] = IF more THEN nextIndex ELSE WorkerDone]
       IN  /\ results' = [results EXCEPT ![ResultSlot(results, current)] = Recorded(o)]
           /\ outcome' = [outcome EXCEPT ![current + 1] = o]
           /\ finished' = Append(finished, current)
           /\ worker' = workerNow
           /\ nextIndex' = IF more THEN nextIndex + 1 ELSE nextIndex
           /\ mapState' = IF \A v \in Workers : workerNow[v] < 0 THEN "resolved" ELSE "running"
    /\ UNCHANGED <<items, concurrency>>

TaskResolves(w, v) == TaskSettles(w, v)

TaskRejects(w) == TaskSettles(w, Rejected)

\* The caller takes the results; a later call starts afresh.
MapReturn ==
    /\ mapState = "resolved"
    /\ mapState' = "idle"
    /\ items' = 0
    /\ concurrency' = 1
    /\ results' = << >>
    /\ outcome' = << >>
    /\ finished' = << >>
    /\ worker' = [w \in Workers |-> NoWorker]
    /\ nextIndex' = 0

MapInit ==
    /\ mapState = "idle"
    /\ items = 0
    /\ concurrency = 1
    /\ results = << >>
    /\ outcome = << >>
    /\ finished = << >>
    /\ worker = [w \in Workers |-> NoWorker]
    /\ nextIndex = 0

-----------------------------------------------------------------------------
(* Local cache store *)

\* JSON values, and what JavaScript makes of them.
Num(n) == [t |-> "num", v |-> n]

NumStr(n) == [t |-> "numstr", v |-> n]      \* a string that Number() reads as n

Text == [t |-> "text", v |-> 0]             \* a string that is no number

Regular == [t |-> "text", v |-> 1]          \* the string 'REGULAR'

Closed == [t |-> "text", v |-> 2]           \* the string 'CLOSED'

Null == [t |-> "null", v |-> 0]

Undef == [t |-> "undef", v |-> 0]           \* no such property

NaN == [t |-> "nan", v |-> 0]

Infinite == [t |-> "inf", v |-> 0]          \* Infinity or -Infinity

Blank == [t |-> "blank", v |-> 0]           \* a string that is empty or only whitespace

\* Number(x)
ToNumber(x) ==
    CASE x.t = "num" -> x
      [] x.t = "numstr" -> Num(x.v)
      [] x.t = "null" -> Num(0)
      [] x.t = "blank" -> Num(0)
      [] x.t = "inf" -> Infinite
      [] OTHER -> NaN

\* typeof v === 'number'
IsNumber(v) == v.t \in {"num", "nan", "inf"}

\* typeof v === 'string'
IsString(v) == v.t \in {"text", "numstr", "blank", "string"}

Keys == {"yahoo:AAPL", "cg:BTC"}

\* The fields of an entry beside tsMs; high stands for the secondary values
\* (high, low, marketCap, volume, pe, fiftyTwoWeekHigh).
Fields == {"price", "change", "high", "marketTimeSec", "marketState"}

TimePoints == (0 .. MaxTick) \cup {LIVE_CACHE_MAX_AGE_MS + t : t \in 1 .. MaxTick}

TsValues == {Num(t) : t \in TimePoints} \cup {NumStr(1), Text, Null, Undef}

\* parsed[key]: an object with its fields, a non-object (null, a number), or no such key.
AbsentEntry == [kind |-> "absent", tsMs |-> Undef, price |-> Undef, change |-> Undef,
                high |-> Undef, marketTimeSec |-> Undef, marketState |-> Undef]

NonObjectEntry == [AbsentEntry EXCEPT !.kind = "null"]

ObjectEntries ==
    [kind : {"object"}, tsMs : TsValues, price : {Num(1), Num(2)}, change : {Undef},
     high : {Undef}, marketTimeSec : {Undef}, marketState : {Undef}]

Entries == ObjectEntries \cup {AbsentEntry, NonObjectEntry}

EmptyMapping == [key \in Keys |-> AbsentEntry]

\* The stored item: none, text that is no JSON, JSON that is no object, or an
\* object; "denied" is a storage whose access throws.
Storages ==
    {[kind |-> k, map |-> EmptyMapping] : k \in {"none", "garbage", "scalar", "denied"}}
        \cup [kind : {"object"}, map : [Keys -> Entries]]

\* entry?.tsMs
EntryTs(entry) == IF entry.kind = "object" THEN entry.tsMs ELSE Undef

\* Mutant: >= in place of >.
Expired_Inclusive(tsMs, nowMs) ==
    tsMs.t # "num" \/ nowMs - tsMs.v >= LIVE_CACHE_MAX_AGE_MS

\* !Number.isFinite(tsMs) || now - tsMs > LIVE_CACHE_MAX_AGE_MS
Expired(tsMs, nowMs) ==
    tsMs.t # "num" \/ nowMs - tsMs.v > LIVE_CACHE_MAX_AGE_MS

\* loadLiveCache() on the stored item raw at clock nowMs.
LoadLiveCache(raw, nowMs) ==
    IF raw.kind # "object" THEN EmptyMapping
    ELSE [key \in Keys |->
            IF raw.map[key].kind = "absent" THEN AbsentEntry
            ELSE IF Expired(ToNumber(EntryTs(raw.map[key])), nowMs) THEN AbsentEntry
            ELSE raw.map[key]]

\* Mutant: no try/catch, the exception leaves the function.
Escapes_NoCatch(thrown) == thrown

\* try { ... } catch { }: whether an exception thrown inside leaves the function.
Escapes(thrown) == FALSE

\* localStorage.getItem throws, or JSON.parse throws.
ReadThrows(raw) == raw.kind \in {"denied", "garbage"}

NoStorage == [kind |-> "none", map |-> EmptyMapping]

NotCalled == [called |-> FALSE, at |-> 0, from |-> NoStorage, map |-> EmptyMapping,
              raised |-> FALSE]

NotGot == [called |-> FALSE, key |-> "", at |-> 0, from |-> NoStorage,
           value |-> AbsentEntry, raised |-> FALSE]

\* A data argument without fields.
NoData == [f \in Fields |-> Undef]

NotPut == [called |-> FALSE, key |-> "", data |-> NoData, at |-> 0,
           from |-> NoStorage, saved |-> FALSE, raised |-> FALSE]

\* What a loadLiveCache() call at this moment leaves in `loaded`.
LoadRecord ==
    [called |-> TRUE, at |-> now, from |-> storage, map |-> LoadLiveCache(storage, now),
     raised |-> Escapes(ReadThrows(storage))]

\* loadLiveCache(), called on its own.
Load ==
    /\ loaded' = LoadRecord
    /\ got' = NotGot
    /\ put' = NotPut
    /\ UNCHANGED <<storage, now>>

\* getCacheEntry(key): cache = loadLiveCache(); return cache[key]
GetCacheEntry(key) ==
    /\ got' = [called |-> TRUE, key |-> key, at |-> now, from |-> storage,
               value |-> LoadLiveCache(storage, now)[key],
               raised |-> Escapes(ReadThrows(storage))]
    /\ loaded' = LoadRecord
    /\ put' = NotPut
    /\ UNCHANGED <<storage, now>>

\* The values a caller's field can hold; Undef is a field that is undefined
\* or not in the data at all.
DataValues == {Num(3), NaN, Infinite, Undef, Null, Text, Blank}

DataArgs == {[NoData EXCEPT !.price = v] : v \in DataValues}

\* The loop body of setCacheEntry for one field: next[k] after it.
MergeField(prev, v) ==
    IF v.t = "undef" THEN prev
    ELSE IF IsNumber(v) THEN (IF v.t = "num" THEN v ELSE prev)
    ELSE IF IsString(v) THEN (IF v.t # "blank" THEN v ELSE prev)
    ELSE v

\* prev = (cache[key] && typeof cache[key] === 'object') ? cache[key] : {}
PrevEntry(cache, key) ==
    IF cache[key].kind = "object" THEN cache[key] ELSE AbsentEntry

\* Mutant: the entry is stamped only when a field of the data was accepted.
NextEntry_StampOnChange(prev, data, nowMs) ==
    [kind |-> "object",
     tsMs |-> IF \A f \in Fields : MergeField(prev[f], data[f]) = prev[f] /\ prev.kind = "object"
              THEN prev.tsMs ELSE Num(nowMs),
     price |-> MergeField(prev.price, data.price),
     change |-> MergeField(prev.change, data.change),
     high |-> MergeField(prev.high, data.high),
     marketTimeSec |-> MergeField(prev.marketTimeSec, data.marketTimeSec),
     marketState |-> MergeField(prev.marketState, data.marketState)]

\* next = { ...prev }, merged with data, stamped with Date.now()
NextEntry(prev, data, nowMs) ==
    [kind |-> "object", tsMs |-> Num(nowMs),
     price |-> MergeField(prev.price, data.price),
     change |-> MergeField(prev.change, data.change),
     high |-> MergeField(prev.high, data.high),
     marketTimeSec |-> MergeField(prev.marketTimeSec, data.marketTimeSec),
     marketState |-> MergeField(prev.marketState, data.marketState)]

\* Mutant: the mapping saved holds the entry of the key alone.
MergedCache_OnlyKey(raw, key, data, nowMs) ==
    [EmptyMapping EXCEPT
        ![key] = NextEntry(PrevEntry(LoadLiveCache(raw, nowMs), key), data, nowMs)]

\* The mapping setCacheEntry hands to saveLiveCache.
MergedCache(raw, key, data, nowMs) ==
    [LoadLiveCache(raw, nowMs) EXCEPT
        ![key] = NextEntry(PrevEntry(LoadLiveCache(raw, nowMs), key), data, nowMs)]

\* saveLiveCache(cache): the stored item afterwards; writeOk is whether
\* localStorage.setItem succeeds.
SaveLiveCache(raw, cache, writeOk) ==
    IF writeOk THEN [kind |-> "object", map |-> cache] ELSE raw

\* setCacheEntry(key, data)
SetCacheEntry(key, data, writeOk) ==
    /\ storage.kind = "denied" => ~writeOk
    /\ storage' = SaveLiveCache(storage, MergedCache(storage, key, data, now), writeOk)
    /\ put' = [called |-> TRUE, key |-> key, data |-> data, at |-> now, from |-> storage,
               saved |-> writeOk,
               raised |-> Escapes(ReadThrows(storage)) \/ Escapes(~writeOk)]
    /\ loaded' = LoadRecord
    /\ got' = NotGot
    /\ UNCHANGED now

\* Time passes.
Tick(t) ==
    /\ t > now
    /\ now' = t
    /\ UNCHANGED <<storage, loaded, got, put>>

CacheInit ==
    /\ storage \in Storages
    /\ now \in TimePoints
    /\ loaded = NotCalled
    /\ got = NotGot
    /\ put = NotPut

CacheQuiet ==
    /\ storage = NoStorage
    /\ now = 0
    /\ loaded = NotCalled
    /\ got = NotGot
    /\ put = NotPut

-----------------------------------------------------------------------------
(* Quote normalisation: the mapper of updateStockData, updateIndicesData and
   updateCommoditiesData *)

\* 1000 * 60 * 3
LiveWindowMs == 180000

\* a ?? b
Nullish(x) == x.t \in {"undef", "null"}

Coalesce(a, b) == IF Nullish(a) THEN b ELSE a

\* Boolean(x); the model feeds no whitespace-only string to a condition.
Truthy(x) ==
    CASE x.t = "num" -> x.v # 0
      [] x.t \in {"text", "numstr", "inf", "string", "object", "wrapper"} -> TRUE
      [] OTHER -> FALSE

\* a || b
OrElse(a, b) == IF Truthy(a) THEN a ELSE b

\* typeof v === 'number' && Number.isFinite(v)
FiniteNumber(v) == v.t = "num"

\* lastFinite(values), looking from position i downwards
RECURSIVE LastFiniteFrom(_, _)
LastFiniteFrom(values, i) ==
    IF i = 0 THEN Undef
    ELSE IF FiniteNumber(values[i]) THEN values[i]
    ELSE LastFiniteFrom(values, i - 1)

LastFinite(values) == LastFiniteFrom(values, Len(values))

\* currentPrice = result.meta.regularMarketPrice ?? seriesClose
CurrentPrice(payload) == Coalesce(payload.regularMarketPrice, LastFinite(payload.close))

\* Mutant: zero passes.
ValidPrice_ZeroPasses(price) == FiniteNumber(price) /\ price.v >= 0

\* typeof currentPrice === 'number' && Number.isFinite(currentPrice) && currentPrice > 0
ValidPrice(price) == FiniteNumber(price) /\ price.v > 0

\* previousClose = result.meta.chartPreviousClose || result.meta.previousClose
PreviousClose(payload) == OrElse(payload.chartPreviousClose, payload.previousClose)

\* Mutant: relative to the current price.
Change_OfPrice(price, previousClose) ==
    IF Truthy(previousClose)
    THEN Num(((price.v - previousClose.v) * 100) \div price.v)
    ELSE Num(0)

\* change = previousClose ? ((currentPrice - previousClose) / previousClose) * 100 : 0
\* (the model's prices make the quotient a whole number)
Change(price, previousClose) ==
    IF Truthy(previousClose)
    THEN Num(((price.v - previousClose.v) * 100) \div previousClose.v)
    ELSE Num(0)

\* tsMs = Number.isFinite(marketTimeSec) ? marketTimeSec * 1000 : Date.now()
MarketTsMs(marketTimeSec, nowMs) ==
    IF FiniteNumber(marketTimeSec) THEN marketTimeSec.v * 1000 ELSE nowMs

\* isLive = marketState === 'REGULAR' || (Date.now() - tsMs) < 1000 * 60 * 3
IsLive(marketState, tsMs, nowMs) ==
    marketState = "REGULAR" \/ nowMs - tsMs < LiveWindowMs

-----------------------------------------------------------------------------
(* Pages, cards and what they show *)

DotHtml == <<".", "h", "t", "m", "l">>

Krypto == <<"k", "r", "y", "p", "t", "o">>

Indices == <<"i", "n", "d", "i", "c", "e", "s">>

Assets == <<"a", "s", "s", "e", "t", "s">>

Futures == <<"f", "u", "t", "u", "r", "e", "s">>

IndexHtml == <<"i", "n", "d", "e", "x">> \o DotHtml

Kontakt == <<"k", "o", "n", "t", "a", "k", "t">>

\* The last path segments the site serves, with and without extension.
Pages ==
    {Krypto \o DotHtml, Krypto, Indices \o DotHtml, Assets \o DotHtml, Futures \o DotHtml,
     IndexHtml, << >>, Kontakt \o DotHtml}

\* currentPage.startsWith(prefix)
StartsWith(text, prefix) ==
    Len(text) >= Len(prefix) /\ SubSeq(text, 1, Len(prefix)) = prefix

\* One card of each class stands for the cards of that class.
CardKinds == {"crypto-card", "index-card", "futures-card"}

Slots == {"price", "badge", "stat"}

\* The pipelines: updateCryptoData, updateStockData, updateIndicesData,
\* updateCommoditiesData.
Pipelines == {"crypto", "stocks", "indices", "commodities"}

\* The card class a pipeline looks its symbols up in.
CardOf(pipe) ==
    CASE pipe = "crypto" -> "crypto-card"
      [] pipe = "indices" -> "index-card"
      [] OTHER -> "futures-card"

\* The cache key of the card's symbol; the three Yahoo pipelines never run on
\* the same page, one key serves them.
KeyOf(card) == IF card = "crypto-card" THEN "cg:BTC" ELSE "yahoo:AAPL"

\* The cards whose elements the selectors of initLiveData's placeholder branch match.
PlaceholderCards(currentPage) ==
    IF StartsWith(currentPage, Krypto) THEN {"crypto-card"}
    ELSE IF StartsWith(currentPage, Indices) THEN {"index-card"}
    ELSE IF StartsWith(currentPage, Assets) \/ StartsWith(currentPage, Futures)
         THEN {"futures-card"}
    ELSE {}

\* The cards the matching branch of applyCachedDataForPage walks through.
CachedCards(currentPage) ==
    IF StartsWith(currentPage, Krypto) THEN {"crypto-card"}
    ELSE IF StartsWith(currentPage, Indices) THEN {"index-card"}
    ELSE IF StartsWith(currentPage, Assets) THEN {"futures-card"}
    ELSE IF StartsWith(currentPage, Futures) THEN {"futures-card"}
    ELSE {}

\* Mutant: the assets and futures branches are swapped.
RefreshOf_Swapped(currentPage) ==
    IF StartsWith(currentPage, Krypto) THEN <<"crypto">>
    ELSE IF StartsWith(currentPage, Assets) THEN <<"commodities">>
    ELSE IF StartsWith(currentPage, Indices) THEN <<"indices">>
    ELSE IF StartsWith(currentPage, Futures) THEN <<"stocks">>
    ELSE IF currentPage = IndexHtml \/ currentPage = << >> THEN <<"crypto", "indices">>
    ELSE << >>

\* The pipelines the last if-chain of initLiveData starts, in call order.
RefreshOf(currentPage) ==
    IF StartsWith(currentPage, Krypto) THEN <<"crypto">>
    ELSE IF StartsWith(currentPage, Assets) THEN <<"stocks">>
    ELSE IF StartsWith(currentPage, Indices) THEN <<"indices">>
    ELSE IF StartsWith(currentPage, Futures) THEN <<"commodities">>
    ELSE IF currentPage = IndexHtml \/ currentPage = << >> THEN <<"crypto", "indices">>
    ELSE << >>

\* The four branches that await the refresh and register the timer.
Awaited(currentPage) ==
    \/ StartsWith(currentPage, Krypto) \/ StartsWith(currentPage, Assets)
    \/ StartsWith(currentPage, Indices) \/ StartsWith(currentPage, Futures)

\* The cards a page can hold: its own class, the previews of the landing page.
CardsOn(currentPage) ==
    IF Awaited(currentPage) THEN PlaceholderCards(currentPage)
    ELSE IF RefreshOf(currentPage) # << >> THEN {"crypto-card", "index-card"}
    ELSE {"crypto-card"}

\* textContent: the text of the HTML file, the neutral glyph, a formatted number.
Hardcoded == [k |-> "hardcoded", v |-> 0]

Glyph == [k |-> "glyph", v |-> 0]

Shown(n) == [k |-> "value", v |-> n]

\* formatPrice, formatMarketCap, formatVolume: zero and NaN give the text of 0.
FormatNumber(x) == IF Truthy(x) /\ x.t = "num" THEN Shown(x.v) ELSE Shown(0)

\* An element: textContent, dataset.liveUpdated ("" is no such attribute) and
\* whether its classList holds live-placeholder.
Untouched == [text |-> Hardcoded, marker |-> "", placeholder |-> FALSE]

\* Mutant: the element keeps the text of the HTML file.
Placeholder_KeepsText == [text |-> Hardcoded, marker |-> "0", placeholder |-> TRUE]

\* el.textContent = '—'; el.dataset.liveUpdated = '0'
Placeholder == [text |-> Glyph, marker |-> "0", placeholder |-> TRUE]

\* Mutant: the marker is set, the class live-placeholder stays.
Marked_KeepsClass(el, source) == [el EXCEPT !.marker = source]

\* markLiveUpdated(el, source): the marker, and classList.remove('live-placeholder')
Marked(el, source) == [el EXCEPT !.marker = source, !.placeholder = FALSE]

\* el.textContent = text; markLiveUpdated(el, source), on an element that may
\* carry the placeholder class.
Written(text, source) ==
    Marked([text |-> text, marker |-> "", placeholder |-> TRUE], source)

\* updateBadge(element, change) then markLiveUpdated: isNaN(change) leaves the text.
BadgeWritten(el, change, source) ==
    IF change.t = "num" THEN Written(Shown(change.v), source)
    ELSE Marked(el, source)

\* The status texts 'Lädt…' and '—', in ASCII.
Loading == "Laedt..."

Dash == "-"

\* No .price-status element yet.
NoStatus == [text |-> "", at |-> None, isLive |-> FALSE]

\* setStatus(card, text, isLive)
StatusOf(text, isLive) == [text |-> text, at |-> None, isLive |-> isLive]

\* setStatus(card, formatStandTime(tsMs), isLive); a tsMs that is not finite
\* gives 'Stand: —', here the time None.
StandOf(tsMs, isLive) ==
    [text |-> "Stand", at |-> IF tsMs.t = "num" THEN tsMs.v ELSE None, isLive |-> isLive]

-----------------------------------------------------------------------------
(* The page controller: initLiveData *)

\* The most update...Data() calls of one page load the model follows.
MaxCycles == 2

\* Mutant: the step after the placeholders is the refresh.
NextStep_SkipsAStep(step) ==
    CASE step = "Init" -> "PlaceholdersSet"
      [] step = "PlaceholdersSet" -> "LiveRefreshing"
      [] OTHER -> "LiveRefreshing"

\* The order of the statements of initLiveData.
NextStep(step) ==
    CASE step = "Init" -> "PlaceholdersSet"
      [] step = "PlaceholdersSet" -> "CachePainted"
      [] OTHER -> "LiveRefreshing"

\* initLiveData down to the removal of live-loading: the placeholder branch.
PreparePlaceholders ==
    /\ pc = "Init"
    /\ pc' = NextStep(pc)
    /\ body' = IF "live-loading" \in body THEN {} ELSE body
    /\ slot' = [c \in CardKinds |->
                  IF c \in cards \cap PlaceholderCards(page)
                  THEN [s \in Slots |-> Placeholder]
                  ELSE slot[c]]
    /\ prepared' = prepared + (IF PlaceholderCards(page) # {} THEN 1 ELSE 0)
    /\ UNCHANGED <<page, cards, status, cycles, timers, painted, seen, quote>>

\* The time applyCachedDataForPage hands to formatStandTime.
CachedTime(card, cached) ==
    IF card # "crypto-card" /\ FiniteNumber(ToNumber(cached.marketTimeSec))
    THEN Num(ToNumber(cached.marketTimeSec).v * 1000)
    ELSE ToNumber(cached.tsMs)

\* Mutant: an entry of the regular session is painted as live.
CachedIsLive_FromState(cached) == cached.marketState = Regular

\* The isLive argument of the setStatus calls of applyCachedDataForPage.
CachedIsLive(cached) == FALSE

\* One slot of a card after the cache paint found the entry cached.
CachePaintedSlot(el, value) ==
    IF FiniteNumber(value) THEN Written(FormatNumber(value), "cache") ELSE el

\* applyCachedDataForPage(currentPage)
ApplyCachedDataForPage ==
    /\ pc = "PlaceholdersSet"
    /\ pc' = NextStep(pc)
    /\ LET cache == LoadLiveCache(storage, now)
           walked == cards \cap CachedCards(page)
           found(c) == cache[KeyOf(c)].kind = "object"
       IN /\ slot' = [c \in CardKinds |->
                        IF c \in walked /\ found(c)
                        THEN [price |-> CachePaintedSlot(slot[c].price, cache[KeyOf(c)].price),
                              badge |-> IF FiniteNumber(cache[KeyOf(c)].change)
                                        THEN BadgeWritten(slot[c].badge, cache[KeyOf(c)].change,
                                                          "cache")
                                        ELSE slot[c].badge,
                              stat |-> CachePaintedSlot(slot[c].stat, cache[KeyOf(c)].high)]
                        ELSE slot[c]]
          /\ status' = [c \in CardKinds |->
                          IF c \notin walked THEN status[c]
                          ELSE IF found(c)
                               THEN StandOf(CachedTime(c, cache[KeyOf(c)]),
                                            CachedIsLive(cache[KeyOf(c)]))
                          ELSE StatusOf(Loading, FALSE)]
          /\ seen' = [c \in CardKinds |->
                        IF c \in walked THEN [seen[c] EXCEPT !.cached = found(c)] ELSE seen[c]]
    /\ painted' = painted + (IF CachedCards(page) # {} THEN 1 ELSE 0)
    /\ UNCHANGED <<page, cards, body, cycles, timers, prepared, quote>>

\* A call of update...Data() that has issued its requests.
Running(pipe, caller) == [pipe |-> pipe, by |-> caller, state |-> "running", result |-> Undef]

\* The last if-chain of initLiveData, up to its await.
StartRefresh ==
    /\ pc = "CachePainted"
    /\ pc' = IF RefreshOf(page) = << >> THEN "Idle" ELSE NextStep(pc)
    /\ cycles' = cycles \o [i \in 1 .. Len(RefreshOf(page)) |-> Running(RefreshOf(page)[i], "init")]
    /\ UNCHANGED <<page, cards, body, slot, status, timers, prepared, painted, seen, quote>>

\* setInterval(update...Data, 60000): the timer fires.
TimerFires ==
    /\ timers > 0
    /\ Len(cycles) < MaxCycles
    /\ cycles' = Append(cycles, Running(RefreshOf(page)[1], "timer"))
    /\ pc' = "LiveRefreshing"
    /\ UNCHANGED <<page, cards, body, slot, status, timers, prepared, painted, seen, quote>>

\* Mutant: the timer is registered only after a refresh that updated something.
TimersAfter_OnSuccess(result) == IF result.t = "num" /\ result.v > 0 THEN 1 ELSE 0

\* How many timers the awaiting branch registers once update...Data() returned result.
TimersAfter(result) == 1

\* classList.toggle('live-ready', updated > 0); classList.toggle('live-failed', updated === 0)
Toggled(classes, updated) ==
    (classes \ {"live-ready", "live-failed"})
        \cup (IF updated.t = "num" /\ updated.v > 0 THEN {"live-ready"} ELSE {})
        \cup (IF updated.t = "num" /\ updated.v = 0 THEN {"live-failed"} ELSE {})

\* update...Data() call i returns result; an awaiting initLiveData goes on.
Returns(i, result) ==
    /\ cycles' = [cycles EXCEPT ![i].state = "settled", ![i].result = result]
    /\ pc' = IF \A j \in DOMAIN cycles : j # i => cycles[j].state = "settled"
             THEN "Idle" ELSE "LiveRefreshing"
    /\ IF cycles[i].by = "init" /\ Awaited(page)
       THEN /\ timers' = timers + TimersAfter(result)
            /\ body' = Toggled(body, result)
       ELSE UNCHANGED <<timers, body>>

\* What update...Data() leaves unchanged when it returns.
RefreshFrame == UNCHANGED <<page, cards, prepared, painted, now, loaded, got, put>>

\* The response of the batched spot-price request: the fetch rejects (or its
\* body is no JSON), the status is not ok, or the body is data; of data, the
\* entry of the card's asset.
NoResponse == [kind |-> "rejects", present |-> FALSE, usd |-> Undef, change |-> Undef,
               cap |-> Undef]

CryptoResponses ==
    {NoResponse, [NoResponse EXCEPT !.kind = "notok"]}
        \cup [kind : {"ok"}, present : BOOLEAN, usd : {Undef, Num(0), Num(7)},
              change : {Undef, Null, Num(3)}, cap : {Undef, Num(9)}]

\* updateBadge(badge, null): isNaN(null) is false and null.toFixed throws.
BadgeThrows(change) == change.t = "null"

\* updateCryptoData() call i gets its response and returns.
CryptoSettles(i, resp, writeOk) ==
    /\ i \in DOMAIN cycles
    /\ cycles[i].state = "running"
    /\ cycles[i].pipe = "crypto"
    /\ LET card == "crypto-card"
           hit == resp.kind = "ok" /\ resp.present /\ card \in cards
           thrown == hit /\ BadgeThrows(resp.change)
           updatedCount == IF hit /\ Truthy(resp.usd) THEN 1 ELSE 0
           data == [price |-> ToNumber(resp.usd), change |-> ToNumber(resp.change),
                    high |-> ToNumber(resp.cap), marketTimeSec |-> Undef,
                    marketState |-> Undef]
       IN /\ slot' = IF ~hit THEN slot
                     ELSE [slot EXCEPT
                             ![card].price = IF Truthy(resp.usd)
                                             THEN Written(FormatNumber(resp.usd), "live")
                                             ELSE @,
                             ![card].badge = IF resp.change.t = "undef" \/ thrown THEN @
                                             ELSE BadgeWritten(@, resp.change, "live"),
                             ![card].stat = IF ~thrown /\ Truthy(resp.cap)
                                            THEN Written(FormatNumber(resp.cap), "live")
                                            ELSE @]
          /\ status' = IF hit /\ ~thrown
                       THEN [status EXCEPT ![card] = StatusOf("Live", TRUE)] ELSE status
          /\ storage' = IF hit /\ ~thrown
                        THEN SaveLiveCache(storage, MergedCache(storage, KeyOf(card), data, now),
                                           writeOk)
                        ELSE storage
          /\ seen' = IF hit THEN [seen EXCEPT ![card].live = TRUE] ELSE seen
          /\ Returns(i, IF resp.kind = "notok" THEN Undef
                        ELSE IF resp.kind = "rejects" THEN Num(0)
                        ELSE Num(updatedCount))
    /\ quote' = quote
    /\ RefreshFrame

\* What fetchJsonWithCorsFallback gives the mapper of a symbol: a rejection,
\* or a chart payload: data?.chart?.result?.[0] with its meta and the close
\* and high series of indicators.quote[0].
RejectedFetch ==
    [kind |-> "rejects", meta |-> FALSE, regularMarketPrice |-> Undef, close |-> << >>,
     chartPreviousClose |-> Undef, previousClose |-> Undef, regularMarketDayHigh |-> Undef,
     high |-> << >>, regularMarketTime |-> Undef, regularMarketState |-> ""]

NoMeta == [RejectedFetch EXCEPT !.kind = "payload"]

ChartPayloads(prices, closes, charts, prevs, highs, times, states) ==
    [kind : {"payload"}, meta : {TRUE}, regularMarketPrice : prices, close : closes,
     chartPreviousClose : charts, previousClose : prevs, regularMarketDayHigh : highs,
     high : {<< >>}, regularMarketTime : times, regularMarketState : states]

\* String(marketState || '')
StateText(marketState) ==
    CASE marketState = "REGULAR" -> Regular
      [] marketState = "" -> Blank
      [] OTHER -> Closed

\* The return value of the mapper.
QuoteResult(payload, hasCard) ==
    IF payload.kind = "rejects" THEN 0
    ELSE IF ~payload.meta THEN 0
    ELSE IF ~ValidPrice(CurrentPrice(payload)) THEN 0
    ELSE IF ~hasCard THEN 0
    ELSE 1

NoQuote == [handled |-> FALSE, pipe |-> "", payload |-> RejectedFetch, result |-> 0]

\* update{Stock,Indices,Commodities}Data() call i: the mapper of its symbol
\* gets the outcome of its fetch, and the call returns.
YahooSettles(i, payload, writeOk) ==
    /\ i \in DOMAIN cycles
    /\ cycles[i].state = "running"
    /\ cycles[i].pipe # "crypto"
    /\ LET pipe == cycles[i].pipe
           card == CardOf(pipe)
           result == QuoteResult(payload, card \in cards)
           currentPrice == CurrentPrice(payload)
           previousClose == PreviousClose(payload)
           change == Change(currentPrice, previousClose)
           high == Coalesce(payload.regularMarketDayHigh, LastFinite(payload.high))
           tsMs == MarketTsMs(payload.regularMarketTime, now)
           isLive == IsLive(payload.regularMarketState, tsMs, now)
           data == [price |-> ToNumber(currentPrice), change |-> ToNumber(change),
                    high |-> ToNumber(high),
                    marketTimeSec |-> ToNumber(payload.regularMarketTime),
                    marketState |-> StateText(payload.regularMarketState)]
       IN /\ slot' = IF result = 0 THEN slot
                     ELSE [slot EXCEPT
                             ![card].price = Written(FormatNumber(currentPrice), "live"),
                             ![card].badge = IF Truthy(previousClose)
                                             THEN BadgeWritten(@, change, "live") ELSE @,
                             ![card].stat = IF /\ FiniteNumber(high)
                                               /\ pipe = "indices" => high.v > 0
                                            THEN Written(FormatNumber(high), "live")
                                            ELSE @]
          /\ status' = IF result = 0 THEN status
                       ELSE [status EXCEPT
                               ![card] = IF isLive THEN StatusOf("Live", TRUE)
                                         ELSE StandOf(Num(tsMs), FALSE)]
          /\ storage' = IF result = 0 THEN storage
                        ELSE SaveLiveCache(storage,
                                           MergedCache(storage, KeyOf(card), data, now), writeOk)
          /\ seen' = IF result = 0 THEN seen ELSE [seen EXCEPT ![card].live = TRUE]
          /\ quote' = [handled |-> TRUE, pipe |-> pipe, payload |-> payload, result |-> result]
          /\ Returns(i, Num(result))
    /\ RefreshFrame

\* The clock of the page load, and the same in seconds.
PageNow == LIVE_CACHE_MAX_AGE_MS + LiveWindowMs + 20000

NowSec == PageNow \div 1000

\* regularMarketTime: none, now, and just inside and just outside the window.
MarketTimes == {Undef, Num(NowSec), Num(NowSec - 179), Num(NowSec - 180)}

\* The outcomes the mappers are checked on.
YahooOutcomes ==
    {RejectedFetch, NoMeta}
        \cup ChartPayloads({Undef, Null, Num(0), Num(5), NumStr(5)},
                           {<< >>, <<Num(8), Null>>, <<Null>>},
                           {Undef, Num(0), Num(4)}, {Undef, Num(1)}, {Undef, Num(9)},
                           MarketTimes, {"REGULAR", "CLOSED", ""})

\* The outcomes a page load is followed through.
PageOutcomes ==
    {RejectedFetch}
        \cup ChartPayloads({Num(0), Num(5)}, {<< >>}, {Undef, Num(4)}, {Undef}, {Num(9)},
                           {Undef, Num(NowSec - 180)}, {"REGULAR", "CLOSED"})

\* The entries earlier visits left: a full one, one of a payload without
\* previous close and high, and one older than the maximum age.
PageEntries ==
    {[kind |-> "object", tsMs |-> Num(PageNow - 1000), price |-> Num(1), change |-> Num(2),
      high |-> Num(9), marketTimeSec |-> Num(NowSec - 1), marketState |-> Regular],
     [kind |-> "object", tsMs |-> Num(PageNow - 1000), price |-> Num(1), change |-> Num(0),
      high |-> Undef, marketTimeSec |-> Undef, marketState |-> Undef],
     [kind |-> "object", tsMs |-> Num(0), price |-> Num(1), change |-> Num(2),
      high |-> Num(9), marketTimeSec |-> Undef, marketState |-> Regular]}

PageStorages ==
    {NoStorage} \cup [kind : {"object"}, map : [Keys -> PageEntries \cup {AbsentEntry}]]

NotSeen == [cached |-> FALSE, live |-> FALSE]

\* The document as served, before initLiveData ran.
DocumentLoaded ==
    /\ pc = "Init"
    /\ slot = [c \in CardKinds |-> [s \in Slots |-> Untouched]]
    /\ status = [c \in CardKinds |-> NoStatus]
    /\ cycles = << >>
    /\ timers = 0
    /\ prepared = 0
    /\ painted = 0
    /\ seen = [c \in CardKinds |-> NotSeen]
    /\ quote = NoQuote

PageQuiet ==
    /\ page = << >>
    /\ cards = {}
    /\ body = {}
    /\ DocumentLoaded

PageInit ==
    /\ page \in Pages
    /\ cards \in SUBSET CardsOn(page)
    /\ body \in {{}, {"live-loading"}}
    /\ DocumentLoaded
    /\ storage \in PageStorages
    /\ now = PageNow
    /\ loaded = NotCalled
    /\ got = NotGot
    /\ put = NotPut

-----------------------------------------------------------------------------
(* One relay attempt in detail: buildProxyUrl, the relay's answer,
   readJsonResponse and extractJsonFromText. Texts are sequences of
   characters. *)

\* The longest upstream body, in characters.
MaxLen == 5

\* The characters of a body: braces, "n" for a JSON literal without braces
\* (null), "s" for white space and "t" for any other text.
Chars == {"{", "}", "n", "s", "t"}

Texts == UNION {[1 .. n -> Chars] : n \in 0 .. MaxLen}

\* The tickers of the cards ('AAPL', 'GC=F'); "h" is a run of unreserved characters.
Tickers == {<<"h">>, <<"h", "=", "h">>}

\* `https://query1.finance.yahoo.com/v8/finance/chart/${ticker}?interval=1d&range=1d`
TargetUrls ==
    {<<"h", ":", "/", "/", "h", "/", "h", "/">> \o ticker
         \o <<"?", "h", "=", "h", "&", "h", "=", "h">> : ticker \in Tickers}

\* proxy.base
Base(proxy) ==
    CASE proxy.name = "allorigins-raw" -> <<"h", ":", "/", "/", "h", "/", "h", "?", "url", "=">>
      [] proxy.name = "jina" -> <<"h", ":", "/", "/", "h", "/">>
      [] proxy.name = "allorigins-get" -> <<"h", ":", "/", "/", "h", "/", "h", "?", "url", "=">>
      [] proxy.name = "corsproxy" -> <<"h", ":", "/", "/", "h", "/", "?">>
      [] proxy.name = "cors-anywhere" -> <<"h", ":", "/", "/", "h", "/">>

\* text.includes(part)
Includes(text, part) ==
    \E i \in 1 .. (Len(text) - Len(part) + 1) : SubSeq(text, i, i + Len(part) - 1) = part

EncodeChar(c) ==
    CASE c = ":" -> "%3A"
      [] c = "/" -> "%2F"
      [] c = "?" -> "%3F"
      [] c = "&" -> "%26"
      [] c = "=" -> "%3D"
      [] OTHER -> c

\* encodeURIComponent(targetUrl)
EncodeURIComponent(url) == [i \in 1 .. Len(url) |-> EncodeChar(url[i])]

\* buildProxyUrl(proxy, targetUrl)
BuildProxyUrl(proxy, targetUrl) ==
    IF proxy.type = "jina" THEN Base(proxy) \o targetUrl
    ELSE IF \/ proxy.type = "raw"
            \/ proxy.type = "allorigins-get"
            \/ Includes(Base(proxy), <<"?">>)
            \/ Includes(Base(proxy), <<"url", "=">>)
         THEN Base(proxy) \o EncodeURIComponent(targetUrl)
    ELSE Base(proxy) \o targetUrl

DecodeChar(c) ==
    CASE c = "%3A" -> ":"
      [] c = "%2F" -> "/"
      [] c = "%3F" -> "?"
      [] c = "%26" -> "&"
      [] c = "%3D" -> "="
      [] OTHER -> c

\* The URL a relay requests upstream: a relay with a query parameter takes the
\* parameter's value up to the next "&" and decodes it; a path relay takes
\* the rest of the URL as it stands.
RelayTarget(proxy, proxyUrl) ==
    LET rest == SubSeq(proxyUrl, Len(Base(proxy)) + 1, Len(proxyUrl))
        stops == {i \in 1 .. Len(rest) : rest[i] = "&"}
        value == IF stops = {} THEN rest
                 ELSE SubSeq(rest, 1, (CHOOSE i \in stops : \A j \in stops : i <= j) - 1)
    IN  IF Includes(Base(proxy), <<"?">>)
        THEN [i \in 1 .. Len(value) |-> DecodeChar(value[i])]
        ELSE rest

\* What a call returned, or the error it threw.
Returned(v) == [ok |-> TRUE, data |-> v, error |-> ""]

Thrown(e) == [ok |-> FALSE, data |-> Undef, error |-> e]

\* A parsed JSON object, written without white space.
Object(text) == [t |-> "object", v |-> 0, s |-> text]

\* A string value.
Str(text) == [t |-> "string", v |-> 0, s |-> text]

\* The parsed envelope of allorigins-get: { contents: ..., status: ... }
Wrapper(contents) == [t |-> "wrapper", v |-> 0, c |-> contents]

Strip(text) == SelectSeq(text, LAMBDA c : c # "s")

\* Opening less closing braces among the first i characters.
Depth(text, i) ==
    Cardinality({j \in 1 .. i : text[j] = "{"}) - Cardinality({j \in 1 .. i : text[j] = "}"})

\* One JSON object: its members are objects in turn.
WellFormedObject(text) ==
    /\ Len(text) >= 2
    /\ \A i \in 1 .. Len(text) : text[i] \in {"{", "}"}
    /\ \A i \in 1 .. (Len(text) - 1) : Depth(text, i) > 0
    /\ Depth(text, Len(text)) = 0

\* JSON.parse(text)
JsonParse(text) ==
    IF Strip(text) = <<"n">> THEN Returned(Null)
    ELSE IF WellFormedObject(Strip(text)) THEN Returned(Object(Strip(text)))
    ELSE Thrown("SyntaxError")

\* text.indexOf(c), text.lastIndexOf(c): positions from 0, -1 if absent.
IndexOf(text, c) ==
    IF \E i \in 1 .. Len(text) : text[i] = c
    THEN (CHOOSE i \in 1 .. Len(text) : text[i] = c /\ \A j \in 1 .. (i - 1) : text[j] # c) - 1
    ELSE -1

LastIndexOf(text, c) ==
    IF \E i \in 1 .. Len(text) : text[i] = c
    THEN (CHOOSE i \in 1 .. Len(text) :
              text[i] = c /\ \A j \in (i + 1) .. Len(text) : text[j] # c) - 1
    ELSE -1

\* text.slice(from, to)
Slice(text, from, to) == SubSeq(text, from + 1, to)

\* extractJsonFromText(text)
ExtractJsonFromText(text) ==
    IF text = << >> THEN Thrown("Empty response body")
    ELSE LET firstBrace == IndexOf(text, "{")
             lastBrace == LastIndexOf(text, "}")
         IN  IF firstBrace = -1 \/ lastBrace = -1 \/ lastBrace <= firstBrace
             THEN Thrown("No JSON object found in response")
             ELSE JsonParse(Slice(text, firstBrace, lastBrace + 1))

\* A response body: text, or the JSON text of an allorigins-get envelope.
TextBody(text) == [form |-> "text", text |-> text, contents |-> Undef]

EnvelopeBody(contents) == [form |-> "envelope", text |-> << >>, contents |-> contents]

\* The text in front of the content in a reader's text/plain answer.
Prose == <<"t", "s">>

\* What a relay answers for an upstream body under its convention: raw and
\* path relays pass it through, the reader may put text in front of it, and
\* allorigins-get puts it into the contents string of a JSON envelope.
Envelopes(proxy, upstream) ==
    CASE proxy.type = "allorigins-get" -> {EnvelopeBody(Str(upstream))}
      [] proxy.type = "jina" -> {TextBody(upstream), TextBody(Prose \o upstream)}
      [] OTHER -> {TextBody(upstream)}

\* What allorigins-get may answer otherwise: no envelope at all, and an
\* envelope whose contents is null or missing when upstream gave nothing.
Unexpected(proxy, upstream) ==
    IF proxy.type # "allorigins-get" THEN {}
    ELSE {TextBody(upstream)}
             \cup (IF upstream = << >> THEN {EnvelopeBody(Null), EnvelopeBody(Undef)} ELSE {})

\* response.json(): reads the body and parses it.
ResponseJson(resp) ==
    IF resp.bodyUsed THEN Thrown("TypeError")
    ELSE IF resp.body.form = "envelope" THEN Returned(Wrapper(resp.body.contents))
    ELSE JsonParse(resp.body.text)

\* response.text(): rejects once the body has been read.
ResponseText(resp) ==
    IF resp.bodyUsed THEN Thrown("TypeError") ELSE Returned(Str(resp.body.text))

\* wrapper.contents
ContentsOf(wrapper) == IF wrapper.t = "wrapper" THEN wrapper.c ELSE Undef

\* readJsonResponse(proxy, response)
ReadJsonResponse(proxy, resp) ==
    LET parsed == ResponseJson(resp)
        used == [resp EXCEPT !.bodyUsed = TRUE]
    IN  IF proxy.type = "allorigins-get"
        THEN IF ~parsed.ok THEN parsed
             ELSE IF ~Truthy(parsed.data) \/ ~IsString(ContentsOf(parsed.data))
                  THEN Thrown("Unexpected allorigins response")
             ELSE ExtractJsonFromText(ContentsOf(parsed.data).s)
        ELSE IF parsed.ok THEN parsed
             ELSE IF ~ResponseText(used).ok THEN ResponseText(used)
             ELSE ExtractJsonFromText(ResponseText(used).data.s)

NoRequest == [index |-> None, targetUrl |-> << >>, proxyUrl |-> << >>]

NotRead == Thrown("not read")

NoAnswer ==
    [stage |-> "none", ok |-> FALSE, upstream |-> << >>, body |-> TextBody(<< >>),
     bodyUsed |-> FALSE, result |-> NotRead]

\* The attempt for the relay at `index`, up to its first await:
\* proxyUrl = buildProxyUrl(proxy, targetUrl); fetchWithTimeout(proxyUrl, ...)
BuildRequest(index, targetUrl) ==
    /\ request = NoRequest
    /\ request' = [index |-> index, targetUrl |-> targetUrl,
                   proxyUrl |-> BuildProxyUrl(CORS_PROXIES[index + 1], targetUrl)]
    /\ UNCHANGED response

\* fetch() resolves: the relay answers for the URL it was asked for; a relay
\* that was asked for another URL has no body to give. !response.ok throws.
ResponseArrives ==
    /\ request # NoRequest
    /\ response.stage = "none"
    /\ LET proxy == CORS_PROXIES[request.index + 1]
           asked == RelayTarget(proxy, request.proxyUrl) = request.targetUrl
       IN  \/ /\ asked
              /\ \E upstream \in Texts :
                    \E answer \in Envelopes(proxy, upstream) \cup Unexpected(proxy, upstream) :
                        response' = [NoAnswer EXCEPT !.stage = "received", !.ok = TRUE,
                                                     !.upstream = upstream, !.body = answer]
           \/ response' = [NoAnswer EXCEPT !.stage = "failed", !.result = Thrown("HTTP")]
    /\ UNCHANGED request

\* const data = await readJsonResponse(proxy, response); currentProxyIndex = index
BodyRead ==
    /\ response.stage = "received"
    /\ LET result == ReadJsonResponse(CORS_PROXIES[request.index + 1], response)
       IN  /\ response' = [response EXCEPT !.stage = IF result.ok THEN "read" ELSE "failed",
                                           !.bodyUsed = TRUE, !.result = result]
           /\ currentProxyIndex' =
                  RotationAfter(currentProxyIndex, request.index,
                                IF result.ok THEN "ok" ELSE "failed")
    /\ UNCHANGED <<request, proxies, hasPromiseAny, maxCalls, call, att, firstOk>>

RelayQuiet ==
    /\ request = NoRequest
    /\ response = NoAnswer

-----------------------------------------------------------------------------
(* One widget element and its placeholder *)

\* The most prepare...Placeholders calls on one element the model follows.
MaxPrepares == 3

\* The element kinds: preparePricePlaceholders, prepareTextPlaceholders and
\* prepareBadgePlaceholders each serve one.
ElementKinds == {"price", "text", "badge"}

\* textContent in the HTML file: some text, or none.
OriginalTexts == {"", "1.00"}

\* The class attribute in the HTML file, as the set of its class names.
OriginalClasses(kind) ==
    IF kind = "badge" THEN {{"badge"}, {"badge", "positive"}} ELSE {{"value"}}

\* A dataset attribute that is not there.
NoAttr(none) == [set |-> FALSE, v |-> none]

Attr(value) == [set |-> TRUE, v |-> value]

\* !el.dataset.fallbackText: no such attribute, or the empty string.
Missing(attr, none) == ~attr.set \/ attr.v = none

\* if (!el.dataset.x) { el.dataset.x = current }
Captured(attr, none, current) == IF Missing(attr, none) THEN Attr(current) ELSE attr

\* prepare...Placeholders(selector) for the element the selector matches.
PreparePlaceholder ==
    /\ element.calls < MaxPrepares
    /\ element' =
          [element EXCEPT
              !.fallbackText = Captured(@, "", element.textContent),
              !.fallbackClassName =
                  IF element.kind = "badge" THEN Captured(@, {}, element.className) ELSE @,
              !.textContent = "-",
              !.className = IF element.kind = "badge" THEN {"badge", "live-placeholder"}
                            ELSE @ \cup {"live-placeholder"},
              !.liveUpdated = "0",
              !.calls = @ + 1,
              !.last = "prepare"]

\* A paint writes the element and calls markLiveUpdated(el, source); for a
\* badge updateBadge replaces the class attribute.
PaintElement(text, source) ==
    /\ element' =
          [element EXCEPT
              !.textContent = text,
              !.className = IF element.kind = "badge" THEN {"badge", "positive"}
                            ELSE @ \ {"live-placeholder"},
              !.liveUpdated = source,
              !.last = "paint",
              !.original = IF element.calls > 0 THEN @
                           ELSE [textContent |-> text,
                                 className |-> IF element.kind = "badge"
                                               THEN {"badge", "positive"}
                                               ELSE element.className \ {"live-placeholder"}]]

ElementQuiet ==
    element = [kind |-> "price", textContent |-> "", className |-> {"value"},
               fallbackText |-> NoAttr(""), fallbackClassName |-> NoAttr({}),
               liveUpdated |-> "", calls |-> 0, last |-> "none",
               original |-> [textContent |-> "", className |-> {"value"}]]

ElementInit ==
    \E kind \in ElementKinds : \E text \in OriginalTexts : \E classes \in OriginalClasses(kind) :
        element = [kind |-> kind, textContent |-> text, className |-> classes,
                   fallbackText |-> NoAttr(""), fallbackClassName |-> NoAttr({}),
                   liveUpdated |-> "", calls |-> 0, last |-> "none",
                   original |-> [textContent |-> text, className |-> classes]]

-----------------------------------------------------------------------------
(* One refresh cycle: the workers of mapWithConcurrency and their fetches *)

\* The symbols of the cycle's list.
MaxSymbols == 3

AllRelays == 0 .. (Len(CORS_PROXIES) - 1)

NoneLingering == [k \in AllRelays |-> [fetching |-> 0, reading |-> 0]]

\* The attempts of call c that have not settled, added to those left behind
\* earlier: nothing aborts them when the call resolves.
LeftBehind(c) ==
    [k \in AllRelays |->
        IF k \in RelayIdx
        THEN [fetching |-> lingering[k].fetching + (IF att[c][k] = "fetching" THEN 1 ELSE 0),
              reading |-> lingering[k].reading + (IF att[c][k] = "reading" THEN 1 ELSE 0)]
        ELSE lingering[k]]

\* mapWithConcurrency spawns its workers: each takes a symbol and its mapper
\* calls fetchJsonWithCorsFallback, all in the same turn.
StartCycle ==
    /\ taken = 0
    /\ taken' = Min(maxCalls, MaxSymbols)
    /\ call' = [c \in Calls |-> IF c <= Min(maxCalls, MaxSymbols) THEN NewCall ELSE call[c]]
    /\ att' = [c \in Calls |-> IF c <= Min(maxCalls, MaxSymbols) THEN NewAttempts ELSE att[c]]
    /\ UNCHANGED <<proxies, hasPromiseAny, maxCalls, currentProxyIndex, firstOk, lingering>>

\* The fetchJson call of worker c has settled: its mapper returns, the worker
\* takes the next symbol and that symbol's mapper calls fetchJson.
NextSymbol(c) ==
    /\ c <= maxCalls
    /\ taken > 0 /\ taken < MaxSymbols
    /\ call[c].status \in {"resolved", "rejected"}
    /\ lingering' = LeftBehind(c)
    /\ taken' = taken + 1
    /\ StartAttempts(c)

\* The fetch of a left-behind attempt rejects, answers with a status that is
\* not ok, or runs into its timeout.
LingeringFails(k) ==
    /\ lingering[k].fetching > 0
    /\ lingering' = [lingering EXCEPT ![k].fetching = @ - 1]
    /\ UNCHANGED <<proxies, hasPromiseAny, maxCalls, currentProxyIndex, call, att, firstOk, taken>>

\* The response of a left-behind attempt arrives; its body is read.
LingeringResponds(k) ==
    /\ lingering[k].fetching > 0
    /\ lingering' = [lingering EXCEPT ![k].fetching = @ - 1, ![k].reading = @ + 1]
    /\ UNCHANGED <<proxies, hasPromiseAny, maxCalls, currentProxyIndex, call, att, firstOk, taken>>

\* A left-behind attempt ends: with a parsed payload it stores its index as
\* currentProxyIndex (line 99), with an unreadable body it fails.
LingeringEnds(k, parsed) ==
    /\ lingering[k].reading > 0
    /\ lingering' = [lingering EXCEPT ![k].reading = @ - 1]
    /\ currentProxyIndex' =
          RotationAfter(currentProxyIndex, k, IF parsed THEN "ok" ELSE "failed")
    /\ UNCHANGED <<proxies, hasPromiseAny, maxCalls, call, att, firstOk, taken>>

CycleQuiet ==
    /\ lingering = NoneLingering
    /\ taken = 0

-----------------------------------------------------------------------------
(* Specifications *)

FetchQuiet ==
    /\ proxies = CORS_PROXIES
    /\ maxCalls = 1
    /\ hasPromiseAny = TRUE
    /\ currentProxyIndex = 0
    /\ call = [c \in Calls |-> IdleCall]
    /\ att = [c \in Calls |-> [k \in 0 .. (Len(CORS_PROXIES) - 1) |-> "none"]]
    /\ firstOk = [c \in Calls |-> None]

Init == FetchInit /\ MapInit /\ CacheQuiet /\ PageQuiet /\ RelayQuiet /\ ElementQuiet /\ CycleQuiet

Next ==
    \/ \E c \in Calls : StartCall(c) /\ UNCHANGED <<mapVars, cacheVars, pageVars, relayVars, domVars, cycleVars>>
    \/ \E c \in Calls : \E k \in RelayIdx : FetchRejects(c, k) /\ UNCHANGED <<mapVars, cacheVars, pageVars, relayVars, domVars, cycleVars>>
    \/ \E c \in Calls : \E k \in RelayIdx : \E ok \in BOOLEAN :
          FetchResponds(c, k, ok) /\ UNCHANGED <<mapVars, cacheVars, pageVars, relayVars, domVars, cycleVars>>
    \/ \E c \in Calls : \E k \in RelayIdx : Timeout(c, k) /\ UNCHANGED <<mapVars, cacheVars, pageVars, relayVars, domVars, cycleVars>>
    \/ \E c \in Calls : \E k \in RelayIdx : BodyParsed(c, k) /\ UNCHANGED <<mapVars, cacheVars, pageVars, relayVars, domVars, cycleVars>>
    \/ \E c \in Calls : \E k \in RelayIdx : BodyFails(c, k) /\ UNCHANGED <<mapVars, cacheVars, pageVars, relayVars, domVars, cycleVars>>

\* The resilient fetch.
Spec == Init /\ [][Next]_vars

\* Timers fire: a pending timeout callback is eventually run. A relay owes
\* nothing: it may never answer, or never finish the body.
FairSpec ==
    /\ Spec
    /\ \A c \in Calls : \A k \in 0 .. (Len(CORS_PROXIES) - 1) :
          WF_vars(k \in RelayIdx /\ Timeout(c, k) /\ UNCHANGED <<mapVars, cacheVars, pageVars, relayVars, domVars, cycleVars>>)

MapperInit == FetchQuiet /\ RelayQuiet /\ ElementQuiet /\ CycleQuiet /\ MapInit /\ CacheQuiet /\ PageQuiet

MapperNext ==
    \/ \E len \in 0 .. MaxItems : \E limit \in 1 .. SYMBOL_FETCH_CONCURRENCY :
          MapCall(len, limit) /\ UNCHANGED <<fetchVars, cacheVars, pageVars, relayVars, domVars, cycleVars>>
    \/ \E w \in Workers : \E v \in TaskValues :
          TaskResolves(w, v) /\ UNCHANGED <<fetchVars, cacheVars, pageVars, relayVars, domVars, cycleVars>>
    \/ \E w \in Workers : TaskRejects(w) /\ UNCHANGED <<fetchVars, cacheVars, pageVars, relayVars, domVars, cycleVars>>
    \/ MapReturn /\ UNCHANGED <<fetchVars, cacheVars, pageVars, relayVars, domVars, cycleVars>>

\* The concurrency-bounded mapper.
MapperSpec == MapperInit /\ [][MapperNext]_vars

CacheStoreInit == FetchQuiet /\ RelayQuiet /\ ElementQuiet /\ CycleQuiet /\ MapInit /\ CacheInit /\ PageQuiet

CacheNext ==
    \/ Load /\ UNCHANGED <<fetchVars, mapVars, pageVars, relayVars, domVars, cycleVars>>
    \/ \E key \in Keys : GetCacheEntry(key) /\ UNCHANGED <<fetchVars, mapVars, pageVars, relayVars, domVars, cycleVars>>
    \/ \E t \in TimePoints : Tick(t) /\ UNCHANGED <<fetchVars, mapVars, pageVars, relayVars, domVars, cycleVars>>

\* The local cache store, read.
CacheSpec == CacheStoreInit /\ [][CacheNext]_vars

\* The stored items a page load can find: nothing, something unusable, or a
\* mapping written by earlier setCacheEntry calls.
WrittenEntries ==
    {[kind |-> "object", tsMs |-> Num(0), price |-> p, change |-> Num(5), high |-> Undef,
      marketTimeSec |-> Undef, marketState |-> Undef] : p \in {Num(1), Text}}

StoreStorages ==
    {[kind |-> k, map |-> EmptyMapping] : k \in {"none", "garbage", "scalar", "denied"}}
        \cup [kind : {"object"}, map : [Keys -> WrittenEntries \cup {AbsentEntry}]]

\* The clock of a later visit: a millisecond on, and past the maximum age.
StoreTimes == {1, LIVE_CACHE_MAX_AGE_MS + 1}

StoreInit ==
    /\ FetchQuiet /\ RelayQuiet /\ ElementQuiet /\ CycleQuiet /\ MapInit /\ PageQuiet
    /\ storage \in StoreStorages
    /\ now = 0
    /\ loaded = NotCalled
    /\ got = NotGot
    /\ put = NotPut

StoreNext ==
    \/ Load /\ UNCHANGED <<fetchVars, mapVars, pageVars, relayVars, domVars, cycleVars>>
    \/ \E key \in Keys : GetCacheEntry(key) /\ UNCHANGED <<fetchVars, mapVars, pageVars, relayVars, domVars, cycleVars>>
    \/ \E key \in Keys : \E data \in DataArgs : \E writeOk \in BOOLEAN :
          SetCacheEntry(key, data, writeOk) /\ UNCHANGED <<fetchVars, mapVars, pageVars, relayVars, domVars, cycleVars>>
    \/ \E t \in StoreTimes : Tick(t) /\ UNCHANGED <<fetchVars, mapVars, pageVars, relayVars, domVars, cycleVars>>

\* The local cache store, read and written.
StoreSpec == StoreInit /\ [][StoreNext]_vars

PageLoadInit == FetchQuiet /\ RelayQuiet /\ ElementQuiet /\ CycleQuiet /\ MapInit /\ PageInit

PageNext ==
    \/ PreparePlaceholders /\ UNCHANGED <<fetchVars, mapVars, cacheVars, relayVars, domVars, cycleVars>>
    \/ ApplyCachedDataForPage /\ UNCHANGED <<fetchVars, mapVars, cacheVars, relayVars, domVars, cycleVars>>
    \/ StartRefresh /\ UNCHANGED <<fetchVars, mapVars, cacheVars, relayVars, domVars, cycleVars>>
    \/ \E i \in 1 .. MaxCycles : \E resp \in CryptoResponses : \E writeOk \in BOOLEAN :
          CryptoSettles(i, resp, writeOk) /\ UNCHANGED <<fetchVars, mapVars, relayVars, domVars, cycleVars>>
    \/ \E i \in 1 .. MaxCycles : \E payload \in PageOutcomes : \E writeOk \in BOOLEAN :
          YahooSettles(i, payload, writeOk) /\ UNCHANGED <<fetchVars, mapVars, relayVars, domVars, cycleVars>>
    \/ TimerFires /\ UNCHANGED <<fetchVars, mapVars, cacheVars, relayVars, domVars, cycleVars>>

\* A page load and its refresh cycles.
PageSpec == PageLoadInit /\ [][PageNext]_vars

\* Timers fire: a registered interval eventually runs its callback. A request
\* owes nothing: it may never be answered.
FairPageSpec ==
    PageSpec /\ WF_vars(TimerFires /\ UNCHANGED <<fetchVars, mapVars, cacheVars, relayVars, domVars, cycleVars>>)

\* initLiveData runs to its await without waiting for anything, and timers
\* fire; a request owes nothing: it may never be answered.
FairLoadSpec ==
    /\ FairPageSpec
    /\ WF_vars(PreparePlaceholders /\ UNCHANGED <<fetchVars, mapVars, cacheVars, relayVars, domVars, cycleVars>>)
    /\ WF_vars(ApplyCachedDataForPage /\ UNCHANGED <<fetchVars, mapVars, cacheVars, relayVars, domVars, cycleVars>>)
    /\ WF_vars(StartRefresh /\ UNCHANGED <<fetchVars, mapVars, cacheVars, relayVars, domVars, cycleVars>>)

\* The page loads of the three Yahoo pipelines, with nothing stored.
QuoteInit ==
    /\ FetchQuiet /\ RelayQuiet /\ ElementQuiet /\ CycleQuiet /\ MapInit /\ PageInit
    /\ page \in {Assets \o DotHtml, Indices \o DotHtml, Futures \o DotHtml}
    /\ storage = NoStorage
    /\ body = {}

QuoteNext ==
    \/ PreparePlaceholders /\ UNCHANGED <<fetchVars, mapVars, cacheVars, relayVars, domVars, cycleVars>>
    \/ ApplyCachedDataForPage /\ UNCHANGED <<fetchVars, mapVars, cacheVars, relayVars, domVars, cycleVars>>
    \/ StartRefresh /\ UNCHANGED <<fetchVars, mapVars, cacheVars, relayVars, domVars, cycleVars>>
    \/ \E payload \in YahooOutcomes : \E writeOk \in BOOLEAN :
          YahooSettles(1, payload, writeOk) /\ UNCHANGED <<fetchVars, mapVars, relayVars, domVars, cycleVars>>

\* The mappers of the Yahoo pipelines on every outcome of a symbol's fetch.
QuoteSpec == QuoteInit /\ [][QuoteNext]_vars

\* What the mapper awaiting call c hands to setCacheEntry: its symbol's price.
SymbolData(c) == [NoData EXCEPT !.price = Num(c + 2)]

\* The mapper that awaits call c: when the call resolves in this step, the
\* mapper goes on in the same turn of the event loop and either returns 0
\* (no usable price, no card) or writes the widgets and calls setCacheEntry
\* with its symbol's key.
MapperStores(c) ==
    IF call[c].status = "pending" /\ call'[c].status = "resolved"
    THEN \/ \E key \in Keys : \E writeOk \in BOOLEAN :
              SetCacheEntry(key, SymbolData(c), writeOk)
         \/ UNCHANGED cacheVars
    ELSE UNCHANGED cacheVars

SymbolsInit ==
    /\ FetchInit /\ maxCalls = 2 /\ hasPromiseAny
    /\ RelayQuiet /\ ElementQuiet /\ CycleQuiet /\ MapInit /\ CacheQuiet /\ PageQuiet

\* One cycle: each symbol's fetchJson call is made once.
SymbolsNext ==
    \/ \E c \in Calls :
          /\ call[c].status = "idle"
          /\ StartCall(c)
          /\ UNCHANGED <<mapVars, cacheVars, pageVars, relayVars, domVars, cycleVars>>
    \/ \E c \in Calls : \E k \in RelayIdx :
          FetchRejects(c, k) /\ MapperStores(c) /\ UNCHANGED <<mapVars, pageVars, relayVars, domVars, cycleVars>>
    \/ \E c \in Calls : \E k \in RelayIdx : \E ok \in BOOLEAN :
          FetchResponds(c, k, ok) /\ MapperStores(c) /\ UNCHANGED <<mapVars, pageVars, relayVars, domVars, cycleVars>>
    \/ \E c \in Calls : \E k \in RelayIdx :
          Timeout(c, k) /\ MapperStores(c) /\ UNCHANGED <<mapVars, pageVars, relayVars, domVars, cycleVars>>
    \/ \E c \in Calls : \E k \in RelayIdx :
          BodyParsed(c, k) /\ MapperStores(c) /\ UNCHANGED <<mapVars, pageVars, relayVars, domVars, cycleVars>>
    \/ \E c \in Calls : \E k \in RelayIdx :
          BodyFails(c, k) /\ MapperStores(c) /\ UNCHANGED <<mapVars, pageVars, relayVars, domVars, cycleVars>>

\* Two symbols' fetches in flight, each followed by its mapper's cache write.
SymbolsSpec == SymbolsInit /\ [][SymbolsNext]_vars

RelayInit == FetchQuiet /\ RelayQuiet /\ ElementQuiet /\ CycleQuiet /\ MapInit /\ CacheQuiet /\ PageQuiet

RelayNext ==
    \/ \E index \in 0 .. (Len(CORS_PROXIES) - 1) : \E targetUrl \in TargetUrls :
          BuildRequest(index, targetUrl) /\ UNCHANGED <<fetchVars, mapVars, cacheVars, pageVars, domVars, cycleVars>>
    \/ ResponseArrives /\ UNCHANGED <<fetchVars, mapVars, cacheVars, pageVars, domVars, cycleVars>>
    \/ BodyRead /\ UNCHANGED <<mapVars, cacheVars, pageVars, domVars, cycleVars>>

\* One relay attempt, from the request URL to the parsed payload.
RelaySpec == RelayInit /\ [][RelayNext]_vars

\* The data of the calls: a price, or nothing the merge accepts.
PurgeData == {[NoData EXCEPT !.price = v] : v \in {Num(3), Undef}}

PurgeNext ==
    \/ \E key \in Keys : \E data \in PurgeData : \E writeOk \in BOOLEAN :
          SetCacheEntry(key, data, writeOk) /\ UNCHANGED <<fetchVars, mapVars, pageVars, relayVars, domVars, cycleVars>>
    \/ \E t \in TimePoints : Tick(t) /\ UNCHANGED <<fetchVars, mapVars, pageVars, relayVars, domVars, cycleVars>>

\* The clock of a visit: Date.now() lies more than the maximum age after the
\* epoch.
PurgeInit == CacheStoreInit /\ now > LIVE_CACHE_MAX_AGE_MS

\* setCacheEntry on every stored item a page can find.
PurgeSpec == PurgeInit /\ [][PurgeNext]_vars

CycleInit ==
    /\ FetchInit /\ maxCalls = 2
    /\ RelayQuiet /\ ElementQuiet /\ CycleQuiet /\ MapInit /\ CacheQuiet /\ PageQuiet

CycleNext ==
    \/ StartCycle /\ UNCHANGED <<mapVars, cacheVars, pageVars, relayVars, domVars>>
    \/ \E c \in Calls : NextSymbol(c) /\ UNCHANGED <<mapVars, cacheVars, pageVars, relayVars, domVars>>
    \/ \E c \in Calls : \E k \in RelayIdx : FetchRejects(c, k) /\ UNCHANGED <<mapVars, cacheVars, pageVars, relayVars, domVars, cycleVars>>
    \/ \E c \in Calls : \E k \in RelayIdx : \E ok \in BOOLEAN :
          FetchResponds(c, k, ok) /\ UNCHANGED <<mapVars, cacheVars, pageVars, relayVars, domVars, cycleVars>>
    \/ \E c \in Calls : \E k \in RelayIdx : Timeout(c, k) /\ UNCHANGED <<mapVars, cacheVars, pageVars, relayVars, domVars, cycleVars>>
    \/ \E c \in Calls : \E k \in RelayIdx : BodyParsed(c, k) /\ UNCHANGED <<mapVars, cacheVars, pageVars, relayVars, domVars, cycleVars>>
    \/ \E c \in Calls : \E k \in RelayIdx : BodyFails(c, k) /\ UNCHANGED <<mapVars, cacheVars, pageVars, relayVars, domVars, cycleVars>>
    \/ \E k \in RelayIdx : LingeringFails(k) /\ UNCHANGED <<mapVars, cacheVars, pageVars, relayVars, domVars>>
    \/ \E k \in RelayIdx : LingeringResponds(k) /\ UNCHANGED <<mapVars, cacheVars, pageVars, relayVars, domVars>>
    \/ \E k \in RelayIdx : \E parsed \in BOOLEAN : LingeringEnds(k, parsed) /\ UNCHANGED <<mapVars, cacheVars, pageVars, relayVars, domVars>>

\* One refresh cycle of a Yahoo pipeline: the workers and every relay request
\* they cause.
CycleSpec == CycleInit /\ [][CycleNext]_vars

ElementSpecInit ==
    FetchQuiet /\ RelayQuiet /\ CycleQuiet /\ MapInit /\ CacheQuiet /\ PageQuiet /\ ElementInit

ElementNext ==
    \/ PreparePlaceholder
          /\ UNCHANGED <<fetchVars, mapVars, cacheVars, pageVars, relayVars, cycleVars>>
    \/ \E text \in {"2.00", "3.00"} : \E source \in {"cache", "live"} :
          PaintElement(text, source)
             /\ UNCHANGED <<fetchVars, mapVars, cacheVars, pageVars, relayVars, cycleVars>>

\* One element under placeholder preparation and paints.
ElementSpec == ElementSpecInit /\ [][ElementNext]_vars

-----------------------------------------------------------------------------
(* Claims about the resilient fetch *)

Started(c) == call[c].status # "idle"

SomeOk(c) == \E k \in RelayIdx : att[c][k] = "ok"

AllFailed(c) == \A k \in RelayIdx : att[c][k] \in Failed

\* The first successful attempt in attempt order, every earlier one having failed.
FirstInOrder(c, v) ==
    \E i \in 1 .. Len(call[c].order) :
        /\ call[c].order[i] = v
        /\ \A j \in 1 .. (i - 1) : att[c][call[c].order[j]] \in Failed

C2_WinnerIsPreferred ==
    \A c \in Calls :
        (maxCalls = 1 /\ call[c].status = "resolved" /\ AllSettled(c))
            => currentProxyIndex = call[c].value

\* C3: a call whose attempts have all failed (by error, status, parse or
\* timeout) has rejected; no failing attempt changes the rotation state; and
\* with one call at a time a rejected call finds the rotation state as it was
\* when the call started.
C3_FailureKeepsRotation ==
    /\ [](\A c \in Calls :
            /\ (Started(c) /\ AllFailed(c)) => call[c].status = "rejected"
            /\ (maxCalls = 1 /\ call[c].status = "rejected")
                  => currentProxyIndex = call[c].startIndex)
    /\ [][ \A c \in Calls : \A k \in RelayIdx :
             (att[c][k] \in {"fetching", "reading"} /\ att'[c][k] \in Failed)
                => currentProxyIndex' = currentProxyIndex ]_vars

\* A rejected call with a timed-out and an otherwise failed attempt, started
\* at a rotation index that an earlier call had moved.
C3_Witness ==
    \E c \in Calls :
        /\ call[c].status = "rejected"
        /\ call[c].startIndex > 0
        /\ currentProxyIndex = call[c].startIndex
        /\ \E k \in RelayIdx : att[c][k] = "aborted"
        /\ \E k \in RelayIdx : att[c][k] = "failed"

\* C4: the attempt order of a call started at rotation index r is
\* r, r+1, ... modulo the number of relays, holds every relay exactly once,
\* and one request is issued per relay.
C4_OrderWrapsOnce ==
    \A c \in Calls :
        Started(c) =>
            /\ Len(call[c].order) = N
            /\ \A i \in 1 .. N : call[c].order[i] = (call[c].startIndex + i - 1) % N
            /\ call[c].order[1] = call[c].startIndex
            /\ \A k \in RelayIdx :
                  /\ Cardinality({i \in 1 .. N : call[c].order[i] = k}) = 1
                  /\ call[c].requests[k] = 1
                  /\ att[c][k] # "none"

\* A call over all configured relays whose order wraps around.
C4_Witness ==
    \E c \in Calls :
        /\ Started(c)
        /\ N = Len(CORS_PROXIES)
        /\ call[c].startIndex = N - 2
        /\ call[c].order[N] = N - 3

AttemptRunning(c, k) == k \in DOMAIN att[c] /\ att[c][k] \in {"fetching", "reading"}

AttemptSettled(c, k) == k \in DOMAIN att[c] /\ att[c][k] \in Settled

\* C5 as stated: with timers firing, every running attempt eventually
\* settles, whatever the relay does.
C5_EveryAttemptSettles ==
    /\ \A c \in Calls : \A k \in 0 .. (Len(CORS_PROXIES) - 1) :
          AttemptRunning(c, k) ~> AttemptSettled(c, k)
    /\ \A c \in Calls :
          (call[c].status = "pending") ~> (call[c].status \in {"resolved", "rejected"})

\* C6: a step in which a timeout aborts an attempt changes the stage of no
\* other attempt, of the same call or of another, and the result of no other
\* call; and no settling attempt changes the value a call has resolved with.
C6_TimeoutIsLocal ==
    [][ \A c \in Calls : \A k \in RelayIdx :
          /\ (att[c][k] = "fetching" /\ att'[c][k] = "aborted") =>
                /\ \A d \in Calls : \A j \in RelayIdx :
                      (d # c \/ j # k) => att'[d][j] = att[d][j]
                /\ \A d \in Calls : d # c => call'[d] = call[d]
          /\ (call[c].status = "resolved" /\ att[c][k] \in {"fetching", "reading"}
                /\ att'[c][k] \in Settled) => call'[c] = call[c]
      ]_vars

\* An attempt timed out beside a sibling that went on to succeed, while the
\* other call, already won, had a later attempt succeed as well.
C6_Witness ==
    \E c \in Calls : \E d \in Calls \ {c} :
        /\ \E k \in RelayIdx : att[c][k] = "aborted"
        /\ \E k \in RelayIdx : att[c][k] = "ok"
        /\ call[d].status = "resolved"
        /\ \E j \in RelayIdx : att[d][j] = "ok" /\ j # call[d].value

\* C24 as stated: without Promise.any the request to a relay is issued only
\* once the attempt before it in the attempt order has failed; the call
\* resolves with the first success in that order and rejects only when every
\* attempt has failed.
C24_StrictlySequential ==
    \A c \in Calls :
        (~hasPromiseAny /\ Started(c)) =>
            /\ \A i \in 2 .. Len(call[c].order) :
                  att[c][call[c].order[i]] # "none"
                      => att[c][call[c].order[i - 1]] \in Failed
            /\ call[c].status = "resolved" => FirstInOrder(c, call[c].value)
            /\ call[c].status = "rejected" => AllFailed(c)

\* C29: the rotation state starts at 0 and is always an index of the relay
\* list; a step changes it only by an attempt going from reading its body to
\* success, and such a step sets it to that attempt's relay index; a step in
\* which an attempt fails or is aborted leaves it unchanged.
C29_RotationOnlyOnSuccess ==
    /\ currentProxyIndex = 0
    /\ [](currentProxyIndex \in RelayIdx)
    /\ [][ /\ currentProxyIndex' # currentProxyIndex =>
                 \E c \in Calls : \E k \in RelayIdx :
                     att[c][k] = "reading" /\ att'[c][k] = "ok" /\ currentProxyIndex' = k
           /\ \A c \in Calls : \A k \in RelayIdx :
                 /\ (att[c][k] = "reading" /\ att'[c][k] = "ok") => currentProxyIndex' = k
                 /\ (att[c][k] \in {"fetching", "reading"} /\ att'[c][k] \in Failed)
                       => currentProxyIndex' = currentProxyIndex
         ]_vars

\* The rotation state was moved off 0 by a successful attempt of a call in
\* which another attempt timed out and a third one failed afterwards or before.
C29_Witness ==
    \E c \in Calls : \E k \in RelayIdx :
        /\ k > 0
        /\ att[c][k] = "ok"
        /\ currentProxyIndex = k
        /\ \E j \in RelayIdx : att[c][j] = "aborted"
        /\ \E j \in RelayIdx : att[c][j] = "failed"

-----------------------------------------------------------------------------
(* Claims about one relay attempt *)

\* The relay of the attempt.
Relay == CORS_PROXIES[request.index + 1]

\* The response had an ok status and readJsonResponse has returned or thrown.
Unwrapped == response.ok /\ response.stage \in {"read", "failed"}

\* C22 as stated: for every relay, the relay is asked for the target URL, and
\* reading the relay's envelope around a well-formed upstream object gives
\* that object.
C22_RoundTrip ==
    /\ request # NoRequest => RelayTarget(Relay, request.proxyUrl) = request.targetUrl
    /\ (/\ Unwrapped
        /\ WellFormedObject(Strip(response.upstream))
        /\ response.body \in Envelopes(Relay, response.upstream))
           => response.result = Returned(Object(Strip(response.upstream)))

\* C25 as stated: for a relay that is not wrapped-json, a body that does not
\* parse directly and from which the brace extraction gets an object yields
\* that object.
C25_TextFallbackRecovers ==
    (/\ Unwrapped
     /\ Relay.type # "allorigins-get"
     /\ ~JsonParse(response.body.text).ok
     /\ ExtractJsonFromText(response.body.text).ok)
        => response.result = ExtractJsonFromText(response.body.text)

\* The text that the brace extraction or the direct parse is given.
TextRead ==
    IF response.body.form = "envelope" /\ IsString(response.body.contents)
    THEN response.body.contents.s
    ELSE response.body.text

\* No opening brace with a closing brace after it.
NoBracePair(text) ==
    ~\E i \in 1 .. Len(text) : \E j \in (i + 1) .. Len(text) : text[i] = "{" /\ text[j] = "}"

\* C26 as stated: a wrapped-json relay's answer is read only from an envelope
\* with a string contents; for every relay a text without an opening brace
\* followed by a closing brace fails the attempt; and a failed attempt
\* leaves the rotation state as it was.
C26_MalformedFails ==
    Unwrapped =>
        /\ (Relay.type = "allorigins-get" /\ response.result.ok)
              => (response.body.form = "envelope" /\ IsString(response.body.contents))
        /\ NoBracePair(TextRead) => ~response.result.ok
        /\ ~response.result.ok => currentProxyIndex = 0

\* The ends of the balanced substrings that start at the first opening brace.
BalancedEnds(text) ==
    {j \in (IndexOf(text, "{") + 1) .. Len(text) :
        /\ IndexOf(text, "{") # -1
        /\ Depth(SubSeq(text, IndexOf(text, "{") + 1, j), j - IndexOf(text, "{")) = 0}

\* The first balanced {...} substring of a text that has one.
FirstBalanced(text) ==
    SubSeq(text, IndexOf(text, "{") + 1,
           CHOOSE j \in BalancedEnds(text) : \A i \in BalancedEnds(text) : j <= i)

\* C27 as stated: the brace extraction returns the parse of the first
\* balanced {...} substring of the text it is given.
C27_FirstBalanced ==
    (/\ Unwrapped
     /\ Relay.type = "allorigins-get"
     /\ response.body.form = "envelope"
     /\ IsString(response.body.contents)
     /\ BalancedEnds(response.body.contents.s) # {})
        => response.result = JsonParse(FirstBalanced(response.body.contents.s))

-----------------------------------------------------------------------------
(* Claims about the concurrency-bounded mapper *)

\* The mapper calls that have been started and have not settled.
StartedUnsettled == {i \in 1 .. Len(outcome) : i <= nextIndex /\ outcome[i] = NoOutcome}

\* C7: the array a call resolves with is as long as items and holds at
\* position i what the mapper call for items[i] settled with (0 for a
\* rejection), in whatever order the calls settled.
C7_ResultsInInputOrder ==
    /\ Len(results) = items
    /\ \A i \in 1 .. Len(results) :
          /\ outcome[i] \in TaskValues => results[i] = outcome[i]
          /\ outcome[i] = NoOutcome => results[i] = Empty
    /\ mapState = "resolved" =>
          \A i \in 1 .. items : outcome[i] # NoOutcome /\ results[i] # Empty

\* A resolved call over MaxItems items whose mapper calls did not settle in
\* input order and did not all return the same.
C7_Witness ==
    /\ mapState = "resolved"
    /\ items = MaxItems
    /\ concurrency > 1
    /\ \E i \in 1 .. Len(finished) : \E j \in 1 .. Len(finished) :
          i < j /\ finished[i] > finished[j]
    /\ \E i \in 1 .. items : \E j \in 1 .. items :
          i < j /\ results[i] = 1 /\ results[j] = 0 /\ outcome[j] = 0

\* C8: at every instant at most `concurrency` mapper calls have been started
\* and have not settled.
C8_AtMostLimitInFlight ==
    mapState # "idle" => Cardinality(StartedUnsettled) <= concurrency

\* Five items under limit 2 with two mapper calls pending and one settled.
C8_Witness ==
    /\ mapState = "running"
    /\ items = 5
    /\ concurrency = 2
    /\ Cardinality(StartedUnsettled) = 2
    /\ Len(finished) > 0

\* C9: a rejected mapper call leaves 0 at its position; the worker that
\* awaited it claims the next unclaimed index in the same step; and the call
\* resolves with every item's mapper call settled.
C9_RejectionIsNeutral ==
    /\ [](\A i \in 1 .. Len(results) : outcome[i] = Rejected => results[i] = 0)
    /\ [](mapState = "resolved" => \A i \in 1 .. items : outcome[i] # NoOutcome)
    /\ [][ \A w \in Workers :
             (/\ worker[w] >= 0
              /\ outcome[worker[w] + 1] = NoOutcome
              /\ outcome'[worker[w] + 1] = Rejected)
             => /\ mapState' \in {"running", "resolved"}
                /\ nextIndex < items => worker'[w] = nextIndex /\ nextIndex' = nextIndex + 1
                /\ \A v \in Workers \ {w} : worker'[v] = worker[v]
         ]_vars

\* A single worker went on after a rejection: the call resolved with a
\* rejected item followed by items whose mapper calls returned 1.
C9_Witness ==
    /\ mapState = "resolved"
    /\ concurrency = 1
    /\ items >= 3
    /\ outcome[1] = Rejected
    /\ results[1] = 0
    /\ \A i \in 2 .. items : outcome[i] = 1 /\ results[i] = 1

\* How often the mapper has been invoked for the item at index idx (from 0).
Invocations(idx) ==
    Cardinality({w \in Workers : worker[w] = idx})
        + Cardinality({i \in 1 .. Len(finished) : finished[i] = idx})

\* C28: a call spawns min(concurrency, items.length) workers; no index is held
\* by two workers; the mapper has been invoked once for every claimed index
\* and not at all for the others; the call has resolved exactly when every
\* item's mapper call has settled; and a call over no items resolves at once
\* with an empty array and no invocation.
C28_EveryItemOnce ==
    mapState # "idle" =>
        /\ Cardinality({w \in Workers : worker[w] # NoWorker}) = Min(concurrency, items)
        /\ \A w \in Workers : \A v \in Workers \ {w} :
              worker[w] >= 0 => worker[v] # worker[w]
        /\ \A idx \in 0 .. (items - 1) :
              Invocations(idx) = IF idx < nextIndex THEN 1 ELSE 0
        /\ \A w \in Workers : worker[w] >= 0 => worker[w] < items
        /\ mapState = "resolved" <=> \A i \in 1 .. items : outcome[i] # NoOutcome
        /\ mapState = "resolved" => \A idx \in 0 .. (items - 1) : Invocations(idx) = 1
        /\ items = 0 => mapState = "resolved" /\ results = << >> /\ finished = << >>

\* Five items under limit 3: three workers, every item's mapper call settled
\* once, the call resolved.
C28_Witness ==
    /\ mapState = "resolved"
    /\ items = 5
    /\ concurrency = 3
    /\ Cardinality({w \in Workers : worker[w] # NoWorker}) = 3
    /\ Len(finished) = 5

-----------------------------------------------------------------------------
(* Claims about the local cache store *)

\* The age at clock `at` of an entry whose tsMs is a number.
Age(entry, at) == at - entry.tsMs.v

HasTimestamp(raw, key) ==
    raw.kind = "object" /\ raw.map[key].kind = "object" /\ raw.map[key].tsMs.t = "num"

\* C10: loadLiveCache returns no entry whose timestamp lies more than
\* LIVE_CACHE_MAX_AGE_MS before the clock, returns every entry whose timestamp
\* is at most that old as stored, and getCacheEntry returns undefined for an
\* expired key.
C10_LoadDropsExpired ==
    /\ loaded.called =>
          \A key \in Keys :
              HasTimestamp(loaded.from, key) =>
                  /\ Age(loaded.from.map[key], loaded.at) > LIVE_CACHE_MAX_AGE_MS
                        => loaded.map[key] = AbsentEntry
                  /\ Age(loaded.from.map[key], loaded.at) <= LIVE_CACHE_MAX_AGE_MS
                        => loaded.map[key] = loaded.from.map[key]
    /\ (/\ got.called
        /\ HasTimestamp(got.from, got.key)
        /\ Age(got.from.map[got.key], got.at) > LIVE_CACHE_MAX_AGE_MS)
          => got.value = AbsentEntry

\* A load that dropped an entry one millisecond too old and kept one of
\* exactly the maximum age, and a getCacheEntry of the expired key.
C10_Witness ==
    /\ loaded.called
    /\ got.called
    /\ got.at = loaded.at
    /\ got.from = loaded.from
    /\ \E k1 \in Keys : \E k2 \in Keys :
          /\ HasTimestamp(loaded.from, k1) /\ HasTimestamp(loaded.from, k2)
          /\ Age(loaded.from.map[k1], loaded.at) = LIVE_CACHE_MAX_AGE_MS + 1
          /\ Age(loaded.from.map[k2], loaded.at) = LIVE_CACHE_MAX_AGE_MS
          /\ loaded.map[k1] = AbsentEntry
          /\ loaded.map[k2] = loaded.from.map[k2]
          /\ got.key = k1
          /\ got.value = AbsentEntry

\* The incoming values the specification lets overwrite a stored field: a
\* finite number or a non-empty string.
FiniteOrNonEmpty(v) == v.t \in {"num", "text", "numstr"}

\* The entry setCacheEntry found under the key it was called with.
FoundByPut == PrevEntry(LoadLiveCache(put.from, put.at), put.key)

\* C11: after a setCacheEntry that was saved, the stored field is the incoming
\* value if that is a finite number or a non-empty string, and is the value
\* found before in every other case (undefined, NaN, infinite, blank string,
\* null).
C11_OnlyFiniteOrNonEmptyOverwrites ==
    (put.called /\ put.saved) =>
        \A f \in Fields :
            storage.map[put.key][f] =
                IF FiniteOrNonEmpty(put.data[f]) THEN put.data[f] ELSE FoundByPut[f]

\* The fields of an entry that hold numbers.
NumericFields == {"price", "change", "high", "marketTimeSec"}

\* No numeric field of a stored entry is NaN, infinite or null.
WellFormedStore(raw) ==
    raw.kind = "object" =>
        \A key \in Keys : \A f \in NumericFields : raw.map[key][f].t \notin {"nan", "inf", "null"}

\* C23 as stated: no cache operation on a well-formed store leaves a stored
\* numeric field that is NaN, infinite or null.
C23_OnlyFiniteNumbers ==
    [][WellFormedStore(storage) => WellFormedStore(storage')]_vars

\* C12: no cache operation raises; a load of a storage that is unreadable,
\* empty, undecodable or no object returns the empty mapping; a setCacheEntry
\* whose write failed leaves the stored item as it was.
C12_CacheNeverRaises ==
    /\ loaded.called =>
          /\ ~loaded.raised
          /\ loaded.from.kind # "object" => loaded.map = EmptyMapping
    /\ got.called => ~got.raised
    /\ put.called =>
          /\ ~put.raised
          /\ ~put.saved => storage = put.from

\* A setCacheEntry on a storage whose read throws and whose write fails.
C12_Witness ==
    /\ put.called
    /\ ~put.saved
    /\ put.from.kind \in {"denied", "garbage"}
    /\ loaded.called
    /\ loaded.from = put.from
    /\ loaded.map = EmptyMapping
    /\ storage = put.from

-----------------------------------------------------------------------------
(* Claims about the page *)

\* A card of an asset page whose symbol had no cache entry when the cache was
\* painted and got no live data since.
WithoutData(c) ==
    /\ Awaited(page)
    /\ c \in cards
    /\ ~seen[c].cached
    /\ ~seen[c].live

FoundAtPaint(c) == LoadLiveCache(storage, now)[KeyOf(c)]

\* C14: the cache paint marks no card live: a card without entry gets the
\* loading text, a card with an entry an as-of time, both without the is-live
\* flag, and every element the paint writes carries the source "cache".
C14_CachePaintNeverLive ==
    [][(pc = "PlaceholdersSet" /\ pc' # pc) =>
          \A c \in cards \cap CachedCards(page) :
              /\ ~status'[c].isLive
              /\ status'[c].text # "Live"
              /\ FoundAtPaint(c).kind # "object" => status'[c].text = Loading
              /\ FoundAtPaint(c).kind = "object" =>
                    /\ status'[c].text = "Stand"
                    /\ \A sl \in Slots :
                          slot'[c][sl] # slot[c][sl] => slot'[c][sl].marker = "cache"]_vars

\* A card painted from an entry of the regular session, one second old, and
\* shown with an as-of time.
C14_Witness ==
    \E c \in cards \cap CachedCards(page) :
        /\ pc = "CachePainted"
        /\ FoundAtPaint(c).kind = "object"
        /\ FoundAtPaint(c).marketState = Regular
        /\ slot[c].price = Written(Shown(1), "cache")
        /\ status[c].text = "Stand"
        /\ ~status[c].isLive

-----------------------------------------------------------------------------
(* Claims about the quote mappers *)

\* The card the last handled payload was for.
QuoteCard == CardOf(quote.pipe)

\* The payload carries a market timestamp that lies within the window before now.
RecentTimestamp(payload) ==
    /\ FiniteNumber(payload.regularMarketTime)
    /\ now - payload.regularMarketTime.v * 1000 < LiveWindowMs

\* C15: after a successful live paint the card's status is "Live", with the
\* is-live flag, if and only if the payload's market state is the regular
\* session or its market timestamp is within three minutes of now; otherwise,
\* also for a payload without timestamp, it is an as-of time without the flag.
C15_LiveIffRegularOrRecent ==
    (quote.handled /\ quote.result = 1) =>
        IF quote.payload.regularMarketState = "REGULAR" \/ RecentTimestamp(quote.payload)
        THEN status[QuoteCard] = StatusOf("Live", TRUE)
        ELSE status[QuoteCard].text = "Stand" /\ ~status[QuoteCard].isLive

\* The price the specification resolves: regularMarketPrice, else the last
\* finite close of the series.
ResolvedPrice(payload) ==
    IF payload.regularMarketPrice.t \in {"undef", "null"}
    THEN LastFinite(payload.close)
    ELSE payload.regularMarketPrice

PositiveFinite(price) == price.t = "num" /\ price.v > 0

\* C16: a mapper whose payload resolves to a price that is no finite number
\* above zero returns 0, writes no element, leaves the status and leaves the
\* stored cache as they were.
C16_NoPriceNoWrite ==
    [][\A i \in 1 .. MaxCycles :
          (/\ i \in DOMAIN cycles
           /\ cycles[i].state = "running"
           /\ cycles[i].pipe # "crypto"
           /\ cycles'[i].state = "settled"
           /\ quote'.payload.kind = "payload"
           /\ quote'.payload.meta
           /\ ~PositiveFinite(ResolvedPrice(quote'.payload)))
              => /\ quote'.result = 0
                 /\ cycles'[i].result = Num(0)
                 /\ slot' = slot
                 /\ status' = status
                 /\ storage' = storage]_vars

\* A payload with price 0 and a finite close in its series, handled for a
\* card that is on the page and stays neutral.
C16_Witness ==
    /\ quote.handled
    /\ QuoteCard \in cards
    /\ quote.payload.regularMarketPrice = Num(0)
    /\ quote.payload.close = <<Num(8), Null>>
    /\ quote.result = 0
    /\ cycles[1].state = "settled"
    /\ \A sl \in Slots : slot[QuoteCard][sl] = Placeholder
    /\ status[QuoteCard] = StatusOf(Loading, FALSE)
    /\ storage = NoStorage

\* The previous close of the specification: chartPreviousClose, else previousClose.
ReferenceClose(payload) ==
    IF payload.chartPreviousClose.t = "num" /\ payload.chartPreviousClose.v # 0
    THEN payload.chartPreviousClose
    ELSE payload.previousClose

HasReference(payload) ==
    ReferenceClose(payload).t = "num" /\ ReferenceClose(payload).v # 0

\* The change the mapper stored for the last payload.
StoredChange == storage.map[KeyOf(QuoteCard)].change

\* C17: for a handled payload with a valid price, the change the mapper
\* computed (stored in the cache, shown in the badge) times the previous close
\* is (price - previous close) * 100, and it is 0 when the previous close is 0
\* or undefined.
C17_PercentChange ==
    (quote.handled /\ quote.result = 1 /\ storage.kind = "object") =>
        /\ StoredChange.t = "num"
        /\ IF HasReference(quote.payload)
           THEN /\ StoredChange.v * ReferenceClose(quote.payload).v =
                      (ResolvedPrice(quote.payload).v - ReferenceClose(quote.payload).v) * 100
                /\ slot[QuoteCard].badge = Written(Shown(StoredChange.v), "live")
           ELSE StoredChange.v = 0

\* Price 8 from the series, chartPreviousClose 0, previousClose 1: change 700.
C17_Witness ==
    /\ quote.handled
    /\ quote.result = 1
    /\ storage.kind = "object"
    /\ quote.payload.regularMarketPrice = Null
    /\ quote.payload.chartPreviousClose = Num(0)
    /\ quote.payload.previousClose = Num(1)
    /\ StoredChange = Num(700)
    /\ slot[QuoteCard].badge = Written(Shown(700), "live")

-----------------------------------------------------------------------------
(* Claims about the page controller *)

\* The steps of the controller's state machine.
AllowedSteps ==
    {<<"Init", "PlaceholdersSet">>, <<"PlaceholdersSet", "CachePainted">>,
     <<"CachePainted", "LiveRefreshing">>, <<"LiveRefreshing", "Idle">>,
     <<"Idle", "LiveRefreshing">>}

\* A step in which a timer-driven refresh starts.
TimerStep == Len(cycles') > Len(cycles) /\ Len(cycles) > 0

\* C18: on an asset page the controller goes Init, PlaceholdersSet,
\* CachePainted, LiveRefreshing without skipping: the placeholders are
\* prepared once before the cache paint, the cache is painted once before the
\* first refresh starts, and a timer firing starts a refresh only: it prepares
\* nothing, paints nothing from the cache and writes no element.
C18_StepsInOrder ==
    /\ [](Awaited(page) =>
            /\ pc # "Init" => prepared = 1
            /\ pc \notin {"Init", "PlaceholdersSet"} => painted = 1
            /\ Len(cycles) > 0 => prepared = 1 /\ painted = 1 /\ pc \in {"LiveRefreshing", "Idle"})
    /\ [][Awaited(page) =>
            /\ pc' # pc => <<pc, pc'>> \in AllowedSteps
            /\ TimerStep =>
                  /\ pc' = "LiveRefreshing"
                  /\ prepared' = prepared /\ painted' = painted
                  /\ slot' = slot /\ status' = status]_vars

\* A timer-driven refresh is running after the first one settled.
C18_Witness ==
    /\ Awaited(page)
    /\ Len(cycles) = 2
    /\ cycles[1].state = "settled"
    /\ cycles[2] = Running(cycles[1].pipe, "timer")
    /\ pc = "LiveRefreshing"
    /\ prepared = 1
    /\ painted = 1

\* The asset class of a page, by its name.
AssetClass ==
    CASE page \in {Krypto \o DotHtml, Krypto} -> "crypto"
      [] page = Assets \o DotHtml -> "stocks"
      [] page = Indices \o DotHtml -> "indices"
      [] page = Futures \o DotHtml -> "commodities"
      [] page \in {IndexHtml, << >>} -> "landing"
      [] OTHER -> "none"

Refreshing == pc \in {"LiveRefreshing", "Idle"}

\* C19: an asset page runs the one pipeline of its class, after placeholders
\* and cache paint, and registers one timer once the first refresh returned;
\* the landing page runs the crypto and the index refresh once each, without
\* placeholders, cache paint or timer; any other page runs nothing.
C19_OnePipelinePerPage ==
    /\ AssetClass \in Pipelines =>
          /\ \A i \in DOMAIN cycles : cycles[i].pipe = AssetClass
          /\ Refreshing =>
                /\ Len(cycles) >= 1 /\ cycles[1].by = "init"
                /\ \A i \in DOMAIN cycles : i > 1 => cycles[i].by = "timer"
                /\ prepared = 1 /\ painted = 1
                /\ timers = IF cycles[1].state = "settled" THEN 1 ELSE 0
    /\ AssetClass = "landing" =>
          /\ prepared = 0 /\ painted = 0 /\ timers = 0
          /\ \A c \in CardKinds : \A sl \in Slots : slot[c][sl].marker \in {"", "live"}
          /\ \A c \in CardKinds : status[c].text \in {"", "Live", "Stand"}
          /\ Refreshing =>
                /\ Len(cycles) = 2
                /\ cycles[1].pipe = "crypto" /\ cycles[2].pipe = "indices"
    /\ AssetClass = "none" =>
          /\ cycles = << >>
          /\ timers = 0
          /\ slot = [c \in CardKinds |-> [sl \in Slots |-> Untouched]]

\* The landing page after both refreshes returned and wrote their cards.
C19_Witness ==
    /\ AssetClass = "landing"
    /\ pc = "Idle"
    /\ Len(cycles) = 2
    /\ cycles[1].result = Num(1)
    /\ cycles[2].result = Num(1)
    /\ slot["crypto-card"].price.marker = "live"
    /\ slot["index-card"].price.marker = "live"
    /\ timers = 0

\* update...Data() call i returned without having updated anything.
FailedCycle(i) ==
    /\ Len(cycles) >= i
    /\ cycles[i].state = "settled"
    /\ cycles[i].result \in {Num(0), Undef}

\* C20: on an asset page, every refresh cycle that failed entirely is
\* followed by a further cycle, the first one included (as far as the model
\* follows the cycles).
C20_FailedCycleIsRetried ==
    \A i \in 1 .. (MaxCycles - 1) :
        (Awaited(page) /\ FailedCycle(i)) ~> (Len(cycles) > i)

\* The first refresh failed and the timer started the next one.
C20_Witness ==
    /\ Awaited(page)
    /\ FailedCycle(1)
    /\ cycles[1].by = "init"
    /\ Len(cycles) = 2
    /\ cycles[2].by = "timer"

-----------------------------------------------------------------------------
(* Claims about the cache and the live paint together *)

\* The stored entry of a card.
StoredEntry(c) == IF storage.kind = "object" THEN storage.map[KeyOf(c)] ELSE AbsentEntry

\* C21 as stated: a card whose price was written from a live response has a
\* stored entry holding the price shown; and a page load that finds an entry
\* within the maximum age has painted its price, marked as from the cache and
\* with a status that is not live, before any refresh has started.
C21_LivePriceIsCached ==
    /\ \A c \in cards :
          slot[c].price.marker = "live" =>
              /\ StoredEntry(c).kind = "object"
              /\ StoredEntry(c).price.t = "num"
              /\ slot[c].price.text = Shown(StoredEntry(c).price.v)
    /\ \A c \in cards \cap CachedCards(page) :
          (pc = "CachePainted" /\ FoundAtPaint(c).kind = "object") =>
              /\ slot[c].price = Written(FormatNumber(FoundAtPaint(c).price), "cache")
              /\ ~status[c].isLive

-----------------------------------------------------------------------------
(* Claims about two symbols' fetches and their cache writes *)

\* The relays whose attempt, of either call, succeeds in this step.
Succeeding == {k \in RelayIdx : \E c \in Calls : att[c][k] # "ok" /\ att'[c][k] = "ok"}

\* What a setCacheEntry(key, data) call made on `raw` at nowMs stores under k.
EntryAfter(raw, key, data, nowMs, k) ==
    IF k = key
    THEN NextEntry(PrevEntry(LoadLiveCache(raw, nowMs), key), data, nowMs)
    ELSE LoadLiveCache(raw, nowMs)[k]

\* C30: with two fetchJson calls in flight, under every interleaving of
\* their attempts' completions, the rotation index starts at 0, is set to k
\* by every step in which an attempt on relay k succeeds and is changed by
\* no other step, so it is the index of the attempt that succeeded last; and
\* the stored item changes only in a step that is one whole setCacheEntry
\* call: that call read the item as it was before the step, the entry of its
\* own key is the previous entry merged with its data, and the entry of the
\* other symbol's key is what it was. No step of a fetch alone changes it.
C30_LastWriterWins ==
    /\ currentProxyIndex = 0
    /\ [][/\ Succeeding # {} => Succeeding = {currentProxyIndex'}
          /\ Succeeding = {} => currentProxyIndex' = currentProxyIndex
          /\ storage' # storage =>
                /\ put'.called /\ put'.saved /\ put'.from = storage
                /\ storage'.kind = "object"
                /\ \A k \in Keys :
                      storage'.map[k] = EntryAfter(storage, put'.key, put'.data, now, k)
          /\ (put' # put /\ ~put'.saved) => storage' = storage]_vars

\* Both symbols' entries are stored, each with its own price, the first call
\* was won by relay 0 and a later success on relay 1 moved the rotation index.
C30_Witness ==
    /\ storage.kind = "object"
    /\ storage.map["yahoo:AAPL"].kind = "object"
    /\ storage.map["cg:BTC"].kind = "object"
    /\ storage.map["yahoo:AAPL"].price # storage.map["cg:BTC"].price
    /\ call[1].status = "resolved" /\ call[1].value = 0
    /\ call[2].status = "resolved"
    /\ currentProxyIndex = 1

-----------------------------------------------------------------------------
(* Claims about the entries setCacheEntry stores *)

\* The fields of the data that the merge of setCacheEntry accepts.
Accepted(data) == {f \in Fields : MergeField(Undef, data[f]) # Undef}

NumericTs(entry) == entry.kind = "object" /\ entry.tsMs.t = "num"

\* C31: after a setCacheEntry call whose write was saved, the entry of its
\* key is stamped with the clock of the call, whatever the data held (also
\* when the merge accepted none of its fields), and the entry is returned by
\* a later read exactly while the clock is at most the maximum age past that
\* call; no step lowers the timestamp of a stored entry.
C31_StampedByEveryCall ==
    /\ [](put.called /\ put.saved =>
            /\ storage.kind = "object"
            /\ storage.map[put.key].kind = "object"
            /\ storage.map[put.key].tsMs = Num(put.at)
            /\ LoadLiveCache(storage, now)[put.key].kind = "object"
                  <=> now - put.at <= LIVE_CACHE_MAX_AGE_MS)
    /\ [][\A key \in Keys :
            (/\ storage.kind = "object" /\ storage'.kind = "object"
             /\ NumericTs(storage.map[key]) /\ NumericTs(storage'.map[key]))
            => storage'.map[key].tsMs.v >= storage.map[key].tsMs.v]_vars

\* An entry stored at clock 0 was written again at clock 1 with data of which
\* no field was accepted; at the maximum age past clock 0, plus one, it is
\* still returned.
C31_Witness ==
    /\ put.called /\ put.saved /\ put.at = 1
    /\ Accepted(put.data) = {}
    /\ put.from.kind = "object"
    /\ put.from.map[put.key].kind = "object"
    /\ put.from.map[put.key].tsMs = Num(0)
    /\ now = LIVE_CACHE_MAX_AGE_MS + 1
    /\ LoadLiveCache(storage, now)[put.key].price = put.from.map[put.key].price

-----------------------------------------------------------------------------
(* Claims about the refresh pipelines *)

\* Call i of update...Data() of the pipeline returns in this step.
SettlesNow(i, pipe) ==
    /\ i \in DOMAIN cycles
    /\ cycles[i].pipe = pipe
    /\ cycles[i].state = "running"
    /\ cycles'[i].state = "settled"

\* C32: when updateCryptoData returns without having counted the card's
\* asset as updated (no entry, or an entry without a usd price or with usd 0),
\* the card's price element, its status and the stored cache are as before;
\* when it returns having counted the asset, the card's status is "Live",
\* whatever the change, market cap and volume of the entry were.
C32_PriceRequired ==
    [][\A i \in 1 .. MaxCycles :
          SettlesNow(i, "crypto") =>
             /\ cycles'[i].result = Num(0) =>
                   /\ slot'["crypto-card"].price = slot["crypto-card"].price
                   /\ status'["crypto-card"] = status["crypto-card"]
                   /\ storage' = storage
             /\ cycles'[i].result = Num(1) =>
                   status'["crypto-card"] = StatusOf("Live", TRUE)]_vars

-----------------------------------------------------------------------------
(* Claims about one widget element *)

\* C33: after any number of prepare...Placeholders calls the stored fallback
\* text is the text the element had before the first call (also when that
\* text was empty), for a badge the stored fallback class is the class it
\* had before the first call, and right after a call the element shows the
\* neutral glyph with the marker '0'.
C33_CapturedOnce ==
    element.calls > 0 =>
        /\ element.fallbackText = Attr(element.original.textContent)
        /\ element.kind = "badge" =>
              element.fallbackClassName = Attr(element.original.className)
        /\ element.last = "prepare" =>
              element.textContent = "-" /\ element.liveUpdated = "0"

-----------------------------------------------------------------------------
(* Claims about the update-source marker *)

\* dataset.liveUpdated in the order none, '0', cache, live.
MarkerRank(marker) ==
    CASE marker = "" -> 0
      [] marker = "0" -> 1
      [] marker = "cache" -> 2
      [] OTHER -> 3

\* C34: within one page load no step moves an element's marker backwards in
\* the order none, '0', cache, live, and no step changes an element that a
\* live paint has written except another live paint; the cache is painted
\* while no refresh has been started; an element marked cache or live does
\* not carry the placeholder class.
C34_MarkerMovesForward ==
    /\ [](\A c \in CardKinds : \A sl \in Slots :
             slot[c][sl].marker \in {"cache", "live"} => ~slot[c][sl].placeholder)
    /\ [][/\ \A c \in CardKinds : \A sl \in Slots :
               /\ MarkerRank(slot'[c][sl].marker) >= MarkerRank(slot[c][sl].marker)
               /\ (slot[c][sl].marker = "live" /\ slot'[c][sl] # slot[c][sl])
                     => slot'[c][sl].marker = "live"
          /\ painted' # painted => Len(cycles) = 0 /\ painted = 0]_vars

\* An element prepared, painted from the cache and then written by a live
\* refresh.
C34_Witness ==
    /\ seen["futures-card"].cached
    /\ slot["futures-card"].price.marker = "live"
    /\ ~slot["futures-card"].price.placeholder
    /\ prepared = 1 /\ painted = 1

-----------------------------------------------------------------------------
(* Claims about failed refreshes *)

\* C35: when a call of update...Data() returns without an updated symbol
\* (its fetch failed, the payload held no usable price, or the batched call
\* failed), the elements and the status of the pipeline's card and the
\* stored cache are as they were before; so a status "Live" stays.
C35_FailedRefreshChangesNothing ==
    [][\A i \in 1 .. MaxCycles : \A pipe \in Pipelines :
          (SettlesNow(i, pipe) /\ cycles'[i].result \in {Num(0), Undef}) =>
              /\ slot'[CardOf(pipe)] = slot[CardOf(pipe)]
              /\ status'[CardOf(pipe)] = status[CardOf(pipe)]
              /\ storage' = storage]_vars

-----------------------------------------------------------------------------
(* Claims about the body classes and the timer *)

\* The first update...Data() call of an asset page has returned.
InitialSettled ==
    /\ Awaited(page)
    /\ Len(cycles) > 0
    /\ cycles[1].state = "settled"

\* The initial refresh updated at least one symbol.
InitialUpdated == cycles[1].result.t = "num" /\ cycles[1].result.v > 0

\* C36: on an asset page, once the initial refresh has returned, live-ready
\* is set exactly when it updated a symbol and live-failed exactly when it
\* updated none (also after a non-ok batched response), so exactly one of
\* them is set; live-loading is gone from the cache paint on; and a refresh
\* started by the timer changes no body class.
C36_ReadyOrFailed ==
    /\ [](InitialSettled =>
            /\ "live-ready" \in body <=> InitialUpdated
            /\ "live-failed" \in body <=> ~InitialUpdated)
    /\ [](Awaited(page) /\ pc # "Init" => "live-loading" \notin body)
    /\ [][InitialSettled => body' = body]_vars

\* C37: on an asset page the interval timer is eventually registered, also
\* when the requests of the initial refresh fail or are never answered; it is
\* registered at most once and only after the initial refresh has returned;
\* on any other page no timer is registered.
C37_TimerEventuallyRegistered ==
    /\ [](timers <= 1)
    /\ [](timers > 0 => InitialSettled)
    /\ [](~Awaited(page) => timers = 0)
    /\ (Awaited(page) ~> timers = 1)

-----------------------------------------------------------------------------
(* Claims about the relay requests of a cycle *)

RECURSIVE SumOver(_, _)
SumOver(f, indices) ==
    IF indices = {} THEN 0
    ELSE LET k == CHOOSE k \in indices : TRUE IN f[k] + SumOver(f, indices \ {k})

\* The relay requests that have not settled: those of the calls the workers
\* await, and those left behind by calls that have resolved.
PendingRequests ==
    Cardinality({<<c, k>> \in Calls \X RelayIdx : att[c][k] \in {"fetching", "reading"}})
        + SumOver([k \in AllRelays |-> lingering[k].fetching + lingering[k].reading], AllRelays)

\* C38: at every instant of a cycle the relay requests that have not settled,
\* those of already resolved calls included, number at most the worker limit
\* times the number of relays.
C38_RequestsBounded == PendingRequests <= maxCalls * N

-----------------------------------------------------------------------------
(* Claims about the cache paint of what a live refresh stored *)

\* The entry the last handled payload's mapper stored, as a later page load
\* within the maximum age reads it.
StoredByLive == LoadLiveCache(storage, now)[KeyOf(QuoteCard)]

\* What a cache paint of the entry writes into a placeholder: the element
\* after it, or the placeholder when the paint leaves it alone.
CachePaintOf(field) ==
    CASE field = "price" -> CachePaintedSlot(Placeholder, StoredByLive.price)
      [] field = "badge" -> IF FiniteNumber(StoredByLive.change)
                            THEN BadgeWritten(Placeholder, StoredByLive.change, "cache")
                            ELSE Placeholder
      [] OTHER -> CachePaintedSlot(Placeholder, StoredByLive.high)

\* C39: after a live refresh has written a card and stored its entry, every
\* element that a cache paint of that entry writes was written by the live
\* refresh, with the same text; so for a payload without previous close,
\* where the live refresh writes no badge, the cache paint writes none.
C39_CacheShowsWhatLiveShowed ==
    (quote.handled /\ quote.result = 1 /\ storage.kind = "object") =>
        \A field \in Slots :
            CachePaintOf(field) # Placeholder =>
                /\ slot[QuoteCard][field].marker = "live"
                /\ slot[QuoteCard][field].text = CachePaintOf(field).text

-----------------------------------------------------------------------------
(* Claims about the entries a setCacheEntry call keeps and removes *)

\* The entry has no finite timestamp (none, null, text) or is older than the
\* maximum age.
Stale(entry, nowMs) ==
    /\ entry.kind # "absent"
    /\ \/ entry.kind # "object"
       \/ entry.tsMs.t \notin {"num", "numstr"}
       \/ nowMs - entry.tsMs.v > LIVE_CACHE_MAX_AGE_MS

\* C40: a saved setCacheEntry(key, data) call leaves, of every other key, an
\* entry that is within the maximum age exactly as it was stored (fields and
\* timestamp), and removes from the stored item every other entry that is
\* older or has no finite timestamp; an absent entry stays absent.
C40_OthersKeptOrPurged ==
    (put.called /\ put.saved /\ put.from.kind = "object") =>
        /\ storage.kind = "object"
        /\ \A k \in Keys \ {put.key} :
              storage.map[k] = IF Stale(put.from.map[k], put.at) THEN AbsentEntry
                               ELSE put.from.map[k]

\* A call at the maximum age plus one: the other key's entry, stored at
\* clock 0, is gone from the stored item.
C40_Witness ==
    /\ put.called /\ put.saved
    /\ put.from.kind = "object"
    /\ put.at = LIVE_CACHE_MAX_AGE_MS + 1
    /\ \E k \in Keys \ {put.key} :
          /\ put.from.map[k].kind = "object"
          /\ put.from.map[k].tsMs = Num(0)
          /\ storage.map[k] = AbsentEntry

=============================================================================
